---- MODULE Spec2Model ----
(***************************************************************************)
(* EditorAssistant: the ingestion pipeline (RSS, VK and Telegram fetchers  *)
(* writing the articles table, the Telegram parent/child correlation), the *)
(* cycle orchestrator and the Telegram authorization state machine.        *)
(*                                                                         *)
(* The articles table is modelled as PostgreSQL at READ COMMITTED: a row   *)
(* carries the transaction that inserted it (tx = 0 once committed), a     *)
(* statement sees the committed rows and its own, and an insert that meets *)
(* another transaction's uncommitted row with the same unique key waits.   *)
(***************************************************************************)
EXTENDS Integers, Sequences, FiniteSets, TLC

\* ------------------------------------------------------------- bounds
MaxMsgs == 3        \* items a source holds in the sequential Telegram model
ConcMsgs == 2       \* items a source holds in the concurrent model
MaxPasses == 2      \* fetch passes made in all
RaceMsgs == 3       \* items and passes of the Telegram race model
MaxCycles == 3      \* cycles the orchestrator starts
MaxTokens == 3      \* login tokens Telegram issues
MaxClock == 240     \* seconds the authorization model runs for
MaxSources == 3     \* enabled sources of one type in a pass
MaxChan == 3        \* messages a channel returns in one Telegram pass
MaxCount == 3       \* the greatest count given to the score function
RssLen == 2         \* entries of the RSS feed with incomplete entries
MaxVkCalls == 4     \* outbound VK API calls the process makes
MaxRows == 3        \* articles in the table a social-stats pass reads
MediaMsgs == 2      \* items a source holds in the media model

\* ---------------------------------------------------- program constants
WINDOW_SEC == 10
QR_TIMEOUT_SECONDS == 120
TG_SLEEP_ON_FLOOD == 60
retries == 10
backoff == 1
NULL == 0

Procs == {1, 2}
TheSource == "source_1"
OtherSource == "source_2"
Times == {0, WINDOW_SEC, WINDOW_SEC + 1}
ConcTimes == {0, WINDOW_SEC + 1}
TgKinds == {"text", "media", "empty"}

VARIABLES
    srcType,    \* type of the source under test: "tg", "vk" or "rss"
    feed,       \* the items of the source, in the order they were published
    avail,      \* how many of them are published so far
    procs,      \* the workers that run fetch passes
    passCap,    \* how many passes are made in all
    articles,   \* the articles table: a set of rows
    nextId,     \* the id sequence of the table
    pc,         \* per worker: the statement it is at
    idx,        \* per worker: index in feed of the item being processed
    added,      \* per worker: the pass's counter of added articles
    newId,      \* per worker: new_id of the row just inserted
    sel,        \* per worker: [ids, parent] selected for attach_children
    passNo,     \* per worker: passes started
    aborted,    \* per worker: why the current pass ended early ("no" if not)
    top,        \* per worker: the newest item of the snapshot the pass iterates
    sawFull,    \* per worker: a complete pass over the same data had finished
                \* when this pass started
    fullAvail   \* the largest snapshot a pass has completed over

fetchVars == <<srcType, feed, avail, procs, passCap, articles, nextId, pc, idx, added,
               newId, sel, passNo, aborted, top, sawFull, fullAvail>>

VARIABLES
    orch,        \* where the orchestrator's loop is
    cycle,       \* cycles started
    ran,         \* the steps of run_cycle that returned in this cycle
    caught,      \* the steps in which a failure was caught and logged
    clock,       \* the time, in minutes
    lastSocial,  \* _last_social_stats_at (-1: None)
    socialRan,   \* whether the social-stats pass ran in this cycle
    pollInterval \* the poll_interval setting, in minutes

cycleVars == <<orch, cycle, ran, caught, clock, lastSocial, socialRan, pollInterval>>

VARIABLES
    state,       \* TelegramAuthManager._state: an AuthState
    client,      \* _client: "none" (None), "closed" or "open" (connected)
    qr_login,    \* _qr_login: NULL or the token of the QRLogin object
    qr_task,     \* _qr_task: NULL or the watcher task (named by its token)
    task,        \* per watcher task: where it is
    op,          \* the operation that holds _lock, if any
    sessionAuth, \* whether Telegram holds the session as authorized
    needPw,      \* whether Telegram waits for the second factor
    now,         \* the time, in seconds
    nextToken,   \* the next login token Telegram issues
    ret,         \* what the last call of an operation returned, and what it met
    loggedOut,   \* "no", or how the last logout went if no login completed since
    persisted,   \* whether _persist_session has saved a granted authorization
    stray        \* who set _client to None while the client was connected

authVars == <<state, client, qr_login, qr_task, task, op, sessionAuth, needPw,
              now, nextToken, ret, loggedOut, persisted, stray>>

VARIABLES
    passType,    \* the type of the pass over the sources: "vk", "rss" or "tg"
    passSrcs,    \* per source: what goes wrong while it is processed
    passPos,     \* the source the pass is at
    passSession, \* the pass's shared session: "ok", or "failed" (its
                 \* transaction met a database error and was not rolled back)
    passResult,  \* per source: "todo", "added", "zero" or "logged"
    passOut      \* "running", "returned" or "raised"

passVars == <<passType, passSrcs, passPos, passSession, passResult, passOut>>

VARIABLES
    creds,       \* whether API_ID and API_HASH are set
    tgUse,       \* who opens the client: the "fetch" pass or the "stats" pass
    chanLen,     \* the messages the channel returns
    floodAt,     \* the message at which iter_messages raises FloodWaitError (0: none)
    floodSecs,   \* the seconds the FloodWaitError carries (0: none given)
    ecTry,       \* _ensure_client: i, the index of the attempt
    ecHist,      \* _ensure_client: what each attempt so far met
    ecSlept,     \* _ensure_client: the delays slept so far
    ecOut,       \* _ensure_client: "start", "running", "client", "none", "raised"
    tgOpen,      \* connected clients not yet disconnected
    itPos,       \* the next message of the iteration
    itDone,      \* whether the iteration is over
    visited,     \* the messages processed
    sleptFlood,  \* the seconds slept on a flood wait
    tgAdded,     \* articles the fetch pass created
    tgWritten,   \* snapshots the stats pass got counts for
    tgOut        \* the pass: "running", "returned" or "raised"

tgPassVars == <<creds, tgUse, chanLen, floodAt, floodSecs, ecTry, ecHist, ecSlept,
                ecOut, tgOpen, itPos, itDone, visited, sleptFlood, tgAdded,
                tgWritten, tgOut>>

VARIABLES
    statCaller,  \* who stores the counts: "vk_repoll", "tg_repoll" (the social
                 \* stats pass) or "tg_fetch" (the fetch pass, at creation)
    statPost,    \* the counts the network reports for the post
    snapshot,    \* the article's row of article_social_stat, or NoSnap
    history,     \* the article's rows of article_social_stat_history
    statOut      \* "running", "returned", "warned" or "raised"

statVars == <<statCaller, statPost, snapshot, history, statOut>>

VARIABLES
    scoreIn,   \* the arguments of a call of compute_engagement_score, and the
               \* view count observed with them
    scoreOut,  \* what the call returned (in half points), PyNone before it
    scoreWas   \* the arguments and the result of the call before, or PyNone

scoreVars == <<scoreIn, scoreOut, scoreWas>>

VARIABLES
    resolveCache,  \* _RESOLVE_CACHE: for each key the (type, object_id) stored,
                   \* or NoEntry
    vkRested,      \* a throttle sleep has ended since the last outbound VK API
                   \* call (TRUE while no call has been made)
    vkCalls,       \* outbound VK API calls made so far
    vkPc,          \* "idle", or "wall" in process_vk_source between the owner
                   \* lookup and fetch_wall
    vkOut          \* the last VK operation: its name, argument, whether it made
                   \* an API call, what the API answered and what it returned

vkVars == <<resolveCache, vkRested, vkCalls, vkPc, vkOut>>

VARIABLES
    stats,      \* the history rows and snapshots written at ingestion: records
                \* [article, what]
    mediaFail,  \* the media downloads that failed: records [p, pass, guid,
                \* logged]
    mediaKeep,  \* the media_keep setting
    mediaBad    \* the guids of the items whose media cannot be downloaded

sideVars == <<stats, mediaFail, mediaKeep, mediaBad>>

VARIABLES
    table,      \* the articles a social-stats pass reads: records [id, type,
                \* parent, link, guid]
    queried,    \* ids of the articles whose counters the pass asked the
                \* network for
    written,    \* ids of the articles whose snapshot the pass wrote
    socialPc    \* where run_social_stats_cycle is: "vk", "tg", "done", "raised"

targetVars == <<table, queried, written, socialPc>>

vars == <<fetchVars, cycleVars, authVars, passVars, tgPassVars, statVars, scoreVars, vkVars, sideVars, targetVars>>

\* What an action of one part of the program leaves alone.
exceptFetch == <<cycleVars, authVars, passVars, tgPassVars, statVars, scoreVars, vkVars, sideVars, targetVars>>
exceptCycle == <<fetchVars, authVars, passVars, tgPassVars, statVars, scoreVars, vkVars, sideVars, targetVars>>
exceptAuth == <<fetchVars, cycleVars, passVars, tgPassVars, statVars, scoreVars, vkVars, sideVars, targetVars>>
exceptPass == <<fetchVars, cycleVars, authVars, tgPassVars, statVars, scoreVars, vkVars, sideVars, targetVars>>
exceptTgPass == <<fetchVars, cycleVars, authVars, passVars, statVars, scoreVars, vkVars, sideVars, targetVars>>
exceptStat == <<fetchVars, cycleVars, authVars, passVars, tgPassVars, scoreVars, vkVars, sideVars, targetVars>>
exceptScore == <<fetchVars, cycleVars, authVars, passVars, tgPassVars, statVars, vkVars, sideVars, targetVars>>
exceptVk == <<fetchVars, cycleVars, authVars, passVars, tgPassVars, statVars, scoreVars, sideVars, targetVars>>
exceptFetchSide == <<cycleVars, authVars, passVars, tgPassVars, statVars, scoreVars, vkVars, targetVars>>
exceptTarget == <<fetchVars, cycleVars, authVars, passVars, tgPassVars, statVars, scoreVars, vkVars, sideVars>>

\* ------------------------------------------------------------ the table
\* article.py: the rows of other sources that are in the table throughout.
ForeignRows ==
    { [id |-> 1, source_id |-> OtherSource, guid |-> 1, link |-> 1,
       description |-> "text", title |-> "text", published_at |-> 0,
       parent |-> NULL, tx |-> 0, kind |-> "text"],
      [id |-> 2, source_id |-> OtherSource, guid |-> 2, link |-> 2,
       description |-> "none", title |-> "link", published_at |-> 0,
       parent |-> NULL, tx |-> 0, kind |-> "media"] }

\* What a statement of worker p sees: committed rows and its own.
Visible(p) == {r \in articles : r.tx = 0 \/ r.tx = p}

\* select(Article.id).where(source_id == source.id, or_(guid == guid, link == link))
Exists(p, it) ==
    \E r \in Visible(p) :
        r.source_id = TheSource /\ (r.guid = it.guid \/ r.link = it.link)

\* The mutant of UqArticleGuid: the table has no such constraint.
NoUqArticleGuid(rows, it) == FALSE

\* UniqueConstraint("source_id", "guid") and ("source_id", "link")
UqArticleGuid(rows, it) ==
    \E r \in rows : r.source_id = TheSource /\ r.guid = it.guid

UqArticleLink(rows, it) ==
    \E r \in rows : r.source_id = TheSource /\ r.link = it.link

\* An insert waits for another transaction's uncommitted row with its key.
Blocked(p, it) ==
    \/ UqArticleGuid({r \in articles : r.tx \notin {0, p}}, it)
    \/ UqArticleLink({r \in articles : r.tx \notin {0, p}}, it)

\* An INSERT that no unique index stops.
InsertRegardless(rows, it) == "inserted"

\* The mutant of OnConflictDoNothing: a plain INSERT.
PlainInsert(rows, it) ==
    IF UqArticleGuid(rows, it) \/ UqArticleLink(rows, it)
    THEN "integrity" ELSE "inserted"

\* pg_insert(...).on_conflict_do_nothing(index_elements=["source_id", "guid"]):
\* a conflict on the arbiter index does nothing, one on the other unique
\* index raises IntegrityError.
OnConflictDoNothing(rows, it) ==
    IF UqArticleGuid(rows, it) THEN "nothing"
    ELSE IF UqArticleLink(rows, it) THEN "integrity"
    ELSE "inserted"

\* session.add(article); session.commit(): a plain INSERT.
SessionAdd(rows, it) ==
    IF UqArticleGuid(rows, it) \/ UqArticleLink(rows, it)
    THEN "integrity" ELSE "inserted"

\* _msg_to_article_fields / process_vk_source / process_source: the row.
NewRow(id, it, p) ==
    [id |-> id, source_id |-> TheSource, guid |-> it.guid, link |-> it.link,
     description |-> IF it.kind = "text" THEN "text" ELSE "none",
     title |-> IF it.kind = "text" THEN "text" ELSE "link",
     published_at |-> it.date, parent |-> NULL, tx |-> p, kind |-> it.kind]

\* session.commit(): the worker's rows become visible to all.
Commit(rows, p) ==
    {IF r.tx = p THEN [r EXCEPT !.tx = 0] ELSE r : r \in rows}

\* session.rollback() / the session closing on an exception.
Rollback(rows, p) == {r \in rows : r.tx # p}

Abs(x) == IF x < 0 THEN -x ELSE x

\* ----------------------------------------------------- Telegram correlation
\* is_child: no text, has media, description None, title is the permalink.
is_child(it) == it.kind = "media"

\* The mutant of OrphanIds: the window's bounds are exclusive.
OrphanIdsStrict(p, t) ==
    {r.id : r \in {x \in {y \in articles : y.tx = 0 \/ y.tx = p} :
        /\ x.source_id = TheSource
        /\ x.parent = NULL
        /\ x.description = "none"
        /\ x.title = "link"
        /\ x.published_at > t - WINDOW_SEC
        /\ x.published_at < t + WINDOW_SEC}}

\* The mutant of OrphanIds: the window is one second wider on each side.
OrphanIdsWide(p, t) ==
    {r.id : r \in {x \in {y \in articles : y.tx = 0 \/ y.tx = p} :
        /\ x.source_id = TheSource
        /\ x.parent = NULL
        /\ x.description = "none"
        /\ x.title = "link"
        /\ x.published_at >= t - (WINDOW_SEC + 1)
        /\ x.published_at <= t + (WINDOW_SEC + 1)}}

\* The orphan query of _process_tg_source for a new text article.
OrphanIds(p, t) ==
    {r.id : r \in {x \in Visible(p) :
        /\ x.source_id = TheSource
        /\ x.parent = NULL
        /\ x.description = "none"
        /\ x.title = "link"
        /\ x.published_at >= t - WINDOW_SEC
        /\ x.published_at <= t + WINDOW_SEC}}

\* The mutant of ParentRows: the rows of every source.
ParentRowsAnySource(p, t) ==
    {x \in {y \in articles : y.tx = 0 \/ y.tx = p} :
        /\ x.parent = NULL
        /\ x.description # "none"
        /\ x.published_at >= t - WINDOW_SEC
        /\ x.published_at <= t + WINDOW_SEC}

\* The mutant of ParentRows: media-only rows are candidates too.
ParentRowsAnyKind(p, t) ==
    {x \in {y \in articles : y.tx = 0 \/ y.tx = p} :
        /\ x.source_id = TheSource
        /\ x.parent = NULL
        /\ x.published_at >= t - WINDOW_SEC
        /\ x.published_at <= t + WINDOW_SEC}

\* The mutant of ParentRows: only the rows after the orphan.
ParentRowsAfter(p, t) ==
    {x \in {y \in articles : y.tx = 0 \/ y.tx = p} :
        /\ x.source_id = TheSource
        /\ x.parent = NULL
        /\ x.description # "none"
        /\ x.published_at > t
        /\ x.published_at <= t + WINDOW_SEC}

\* The rows find_parent_by_time selects.
ParentRows(p, t) ==
    {x \in Visible(p) :
        /\ x.source_id = TheSource
        /\ x.parent = NULL
        /\ x.description # "none"
        /\ x.published_at >= t - WINDOW_SEC
        /\ x.published_at <= t + WINDOW_SEC}

\* The orders in which a query without ORDER BY may return a set of rows.
RowOrders(S) ==
    {s \in [1..Cardinality(S) -> S] : \A i, j \in DOMAIN s : i # j => s[i] # s[j]}

\* Python's min(rows, key=...): the first row of the least key.
PyMin(rows, t) ==
    LET d(r) == Abs(r.published_at - t)
        i == CHOOSE k \in DOMAIN rows :
                /\ \A j \in DOMAIN rows : d(rows[k]) <= d(rows[j])
                /\ \A j \in DOMAIN rows : d(rows[j]) = d(rows[k]) => k <= j
    IN rows[i].id

\* find_parent_by_time, given the order the rows came back in.
find_parent_by_time(rows, t) ==
    IF Len(rows) = 0 THEN NULL ELSE PyMin(rows, t)

\* The mutant of attach_children: the update without "parent IS NULL".
AttachUnconditional(rows, parent_id, children_ids) ==
    {IF r.id \in children_ids
     THEN [r EXCEPT !.parent = parent_id] ELSE r : r \in rows}

\* attach_children: update ... where id in children_ids and parent is NULL.
attach_children(rows, parent_id, children_ids) ==
    {IF r.id \in children_ids /\ r.parent = NULL
     THEN [r EXCEPT !.parent = parent_id] ELSE r : r \in rows}

\* ------------------------------------------------------------- a pass
Item(p) == feed[idx[p]]

NoSel == [ids |-> {}, parent |-> NULL]

\* The loop moves to the next item; items come newest first.
Advance(p, endpc) ==
    /\ idx' = [idx EXCEPT ![p] = idx[p] - 1]
    /\ pc' = [pc EXCEPT ![p] = IF idx[p] = 1 THEN endpc ELSE "exists"]
    /\ newId' = [newId EXCEPT ![p] = NULL]
    /\ sel' = [sel EXCEPT ![p] = NoSel]

\* A pass that reached the end of its snapshot.
Completed(p) ==
    fullAvail' = IF top[p] > fullAvail THEN top[p] ELSE fullAvail

\* The source publishes its next item.
Publish ==
    /\ UNCHANGED exceptFetch
    /\ avail < Len(feed)
    /\ avail' = avail + 1
    /\ UNCHANGED <<srcType, feed, procs, passCap, articles, nextId, pc, idx, added,
                   newId, sel, passNo, aborted, top, sawFull, fullAvail>>

\* run_vk_cycle / full_cycle / _run_tg_cycle_async reach the source.
PassStart(p) ==
    /\ UNCHANGED exceptFetch
    /\ p \in procs
    /\ pc[p] \in {"idle", "done"}
    /\ passNo[1] + passNo[2] < passCap
    /\ avail > 0
    /\ passNo' = [passNo EXCEPT ![p] = passNo[p] + 1]
    /\ idx' = [idx EXCEPT ![p] = avail]
    /\ top' = [top EXCEPT ![p] = avail]
    /\ added' = [added EXCEPT ![p] = 0]
    /\ aborted' = [aborted EXCEPT ![p] = "no"]
    /\ sawFull' = [sawFull EXCEPT ![p] = (avail <= fullAvail)]
    /\ pc' = [pc EXCEPT ![p] = "exists"]
    /\ newId' = [newId EXCEPT ![p] = NULL]
    /\ sel' = [sel EXCEPT ![p] = NoSel]
    /\ UNCHANGED <<srcType, feed, avail, procs, passCap, articles, nextId, fullAvail>>

\* ------------------------------------------------- engagement snapshots
\* Python values passed to the stats functions: None, a number, a datetime.
PyNone == [t |-> "none"]

PyNum(n) == [t |-> "num", v |-> n]

PyDatetime == [t |-> "datetime"]

\* The counts a post can have.
StatCounts == {0, 2, 3, 10}

NoSnap == [t |-> "none"]

Max0(n) == IF n > 0 THEN n ELSE 0

\* int(x or 0) for None or an int.
IntOr0(x) == IF x.t = "num" THEN x.v ELSE 0

\* The score with the weights of like and comment exchanged.
ScoreSwapped(like_count, repost_count, comment_count) ==
    2 * Max0(IntOr0(like_count)) + Max0(IntOr0(comment_count))
        + 4 * Max0(IntOr0(repost_count))

\* The score with abs() in place of max(0, .).
ScoreAbs(like_count, repost_count, comment_count) ==
    2 * Abs(IntOr0(comment_count)) + Abs(IntOr0(like_count))
        + 4 * Abs(IntOr0(repost_count))

\* compute_engagement_score(like_count, repost_count, comment_count), in
\* half points: comment * 1.0 + like * 0.5 + repost * 2.0, each count
\* read as int(x or 0) and floored at 0.
compute_engagement_score(like_count, repost_count, comment_count) ==
    2 * Max0(IntOr0(comment_count)) + Max0(IntOr0(like_count))
        + 4 * Max0(IntOr0(repost_count))

\* float(x or 0.0), in half points: None and 0 give 0.0, a number itself, a
\* datetime (truthy, no __float__) raises TypeError.
PyFloat(x) ==
    CASE x.t = "none" -> [err |-> FALSE, v |-> 0]
      [] x.t = "num" -> [err |-> FALSE, v |-> x.v]
      [] OTHER -> [err |-> TRUE]

\* How Python binds the positional arguments of a call of
\* upsert_article_social_stat(session, article_id, like_count, repost_count,
\* comment_count, view_count, engagement_score=None, previous_engagement=None,
\* engagement_delta=None, is_trending=None, collected_at=None): `args` are
\* those after article_id.
BindUpsert(args) ==
    [like_count |-> args[1], repost_count |-> args[2], comment_count |-> args[3],
     view_count |-> args[4],
     engagement_score |-> IF Len(args) >= 5 THEN args[5] ELSE PyNone,
     collected_at |-> IF Len(args) >= 9 THEN args[9] ELSE PyNone]

\* upsert_article_social_stat: the row it writes, or TypeError.
upsert_article_social_stat(args) ==
    LET b == BindUpsert(args)
        score == PyFloat(b.engagement_score)
    IN IF score.err THEN [err |-> TRUE]
       ELSE [err |-> FALSE,
             row |-> [t |-> "row",
                      like_count |-> Max0(b.like_count.v),
                      repost_count |-> Max0(b.repost_count.v),
                      comment_count |-> Max0(b.comment_count.v),
                      view_count |-> Max0(b.view_count.v),
                      engagement_score |-> score.v]]

\* The arguments each caller passes after article_id.
\*   _collect_vk_stats and run_social_stats_cycle: like, repost, comment,
\*     view, collected_at (five positionals)
\*   _process_tg_source: like, repost, comment, view, engagement_score, None,
\*     None, False, fetched_at
UpsertArgs(caller, post) ==
    LET counts == <<PyNum(post.like), PyNum(post.repost), PyNum(post.comment),
                    PyNum(post.view)>>
    IN IF caller = "tg_fetch"
       THEN counts \o <<PyNum(compute_engagement_score(PyNum(post.like),
                                          PyNum(post.repost), PyNum(post.comment))),
                        PyNone, PyNone, PyNum(0), PyDatetime>>
       ELSE counts \o <<PyDatetime>>

\* ------------------------------------------------- _process_tg_source
TgExists(p) ==
    /\ UNCHANGED exceptFetch
    /\ p \in procs /\ srcType = "tg" /\ pc[p] = "exists"
    /\ IF Exists(p, Item(p))
       THEN /\ Advance(p, "done")
            /\ IF idx[p] = 1 THEN Completed(p) ELSE UNCHANGED fullAvail
       ELSE /\ pc' = [pc EXCEPT ![p] = "insert"]
            /\ UNCHANGED <<idx, newId, sel, fullAvail>>
    /\ UNCHANGED <<srcType, feed, avail, procs, passCap, articles, nextId, added,
                   passNo, aborted, top, sawFull>>

TgInsert(p) ==
    /\ UNCHANGED exceptFetch
    /\ p \in procs /\ srcType = "tg" /\ pc[p] = "insert"
    /\ ~Blocked(p, Item(p))
    /\ LET res == OnConflictDoNothing(Visible(p), Item(p)) IN
       CASE res = "inserted" ->
              /\ articles' = articles \cup {NewRow(nextId, Item(p), p)}
              /\ nextId' = nextId + 1
              /\ newId' = [newId EXCEPT ![p] = nextId]
              /\ pc' = [pc EXCEPT ![p] = "link"]
              /\ UNCHANGED <<idx, sel, aborted, fullAvail>>
         [] res = "nothing" ->
              \* new_id is None: session.rollback(); continue
              /\ articles' = Rollback(articles, p)
              /\ Advance(p, "done")
              /\ IF idx[p] = 1 THEN Completed(p) ELSE UNCHANGED fullAvail
              /\ UNCHANGED <<nextId, aborted>>
         [] res = "integrity" ->
              \* IntegrityError leaves the with block and is caught by
              \* "except Exception": the pass over this source ends.
              /\ articles' = Rollback(articles, p)
              /\ aborted' = [aborted EXCEPT ![p] = "integrity"]
              /\ pc' = [pc EXCEPT ![p] = "done"]
              /\ newId' = [newId EXCEPT ![p] = NULL]
              /\ sel' = [sel EXCEPT ![p] = NoSel]
              /\ UNCHANGED <<idx, nextId, fullAvail>>
    /\ UNCHANGED <<srcType, feed, avail, procs, passCap, added, passNo, top, sawFull>>

\* The branch on has_text / is_child that selects what to attach.
TgLink(p) ==
    /\ UNCHANGED exceptFetch
    /\ p \in procs /\ srcType = "tg" /\ pc[p] = "link"
    /\ \E rows \in RowOrders(ParentRows(p, Item(p).date)) :
         LET ids == IF Item(p).kind = "text"
                    THEN OrphanIds(p, Item(p).date)
                    ELSE {newId[p]}
             parent_id == IF Item(p).kind = "text" THEN newId[p]
                          ELSE IF is_child(Item(p))
                          THEN find_parent_by_time(rows, Item(p).date)
                          ELSE NULL
             go == IF Item(p).kind = "text" THEN ids # {} ELSE parent_id # NULL
         IN /\ sel' = [sel EXCEPT ![p] = [ids |-> ids, parent |-> parent_id]]
            /\ pc' = [pc EXCEPT ![p] = IF go THEN "attach" ELSE "commit"]
    /\ UNCHANGED <<srcType, feed, avail, procs, passCap, articles, nextId, idx, added,
                   newId, passNo, aborted, top, sawFull, fullAvail>>

\* attach_children(session, parent_id, ids): the update, then session.commit().
TgAttach(p) ==
    /\ UNCHANGED exceptFetch
    /\ p \in procs /\ srcType = "tg" /\ pc[p] = "attach"
    /\ articles' = Commit(attach_children(articles, sel[p].parent, sel[p].ids), p)
    /\ pc' = [pc EXCEPT ![p] = "commit"]
    /\ UNCHANGED <<srcType, feed, avail, procs, passCap, nextId, idx, added, newId, sel,
                   passNo, aborted, top, sawFull, fullAvail>>

\* The stats block writes for every message.
HasStatsAlways(it) == TRUE

\* if has_text: the stats block of the ingestion
HasStats(it) == it.kind = "text"

\* The counters of a message as it is fetched.
FreshPost == [like |-> 0, repost |-> 0, comment |-> 0, view |-> 0]

\* insert_article_social_stat_history, then upsert_article_social_stat, in a
\* try that logs a warning: what the block leaves for article id.
IngestStats(id) ==
    {[article |-> id, what |-> "history"]}
        \cup IF upsert_article_social_stat(UpsertArgs("tg_fetch", FreshPost)).err
             THEN {}
             ELSE {[article |-> id, what |-> "snapshot"]}

\* The stats block, then session.commit(); added += 1
TgCommit(p) ==
    /\ UNCHANGED exceptFetchSide
    /\ p \in procs /\ srcType = "tg" /\ pc[p] = "commit"
    /\ stats' = IF HasStats(Item(p)) THEN stats \cup IngestStats(newId[p]) ELSE stats
    /\ articles' = Commit(articles, p)
    /\ added' = [added EXCEPT ![p] = added[p] + 1]
    /\ IF mediaKeep
       THEN /\ pc' = [pc EXCEPT ![p] = "media"]
            /\ UNCHANGED <<idx, newId, sel, fullAvail>>
       ELSE /\ Advance(p, "done")
            /\ IF idx[p] = 1 THEN Completed(p) ELSE UNCHANGED fullAvail
    /\ UNCHANGED <<mediaFail, mediaKeep, mediaBad>>
    /\ UNCHANGED <<srcType, feed, avail, procs, passCap, nextId, passNo, aborted, top,
                   sawFull>>

\* if media_keep: download_tg_media_for_message in a try that logs a
\* warning; then the loop goes on.
TgMedia(p) ==
    /\ UNCHANGED exceptFetchSide
    /\ p \in procs /\ srcType = "tg" /\ pc[p] = "media"
    /\ mediaFail' = IF Item(p).guid \in mediaBad
                    THEN mediaFail \cup {[p |-> p, pass |-> passNo[p],
                                          guid |-> Item(p).guid, logged |-> TRUE]}
                    ELSE mediaFail
    /\ UNCHANGED <<mediaKeep, mediaBad>>
    /\ Advance(p, "done")
    /\ IF idx[p] = 1 THEN Completed(p) ELSE UNCHANGED fullAvail
    /\ UNCHANGED stats
    /\ UNCHANGED <<srcType, feed, avail, procs, passCap, articles, nextId, added, passNo,
                   aborted, top, sawFull>>

\* ---------------------------------------------------- process_vk_source
VkExists(p) ==
    /\ UNCHANGED exceptFetch
    /\ p \in procs /\ srcType = "vk" /\ pc[p] = "exists"
    /\ IF Exists(p, Item(p))
       THEN Advance(p, "vkend")
       ELSE /\ pc' = [pc EXCEPT ![p] = "insert"]
            /\ UNCHANGED <<idx, newId, sel>>
    /\ UNCHANGED <<srcType, feed, avail, procs, passCap, articles, nextId, added,
                   passNo, aborted, top, sawFull, fullAvail>>

\* The media download outside any try.
VkMediaPropagates == FALSE

\* try: download_vk_media_for_post(...) except Exception: log a warning
VkMediaCatches == TRUE

VkInsert(p) ==
    /\ UNCHANGED exceptFetchSide
    /\ p \in procs /\ srcType = "vk" /\ pc[p] = "insert"
    /\ ~Blocked(p, Item(p))
    /\ UNCHANGED <<stats, mediaKeep, mediaBad>>
    /\ LET res == OnConflictDoNothing(Visible(p), Item(p))
           failed == Item(p).guid \in mediaBad
       IN
       CASE res = "inserted" ->
              \* res.rowcount: added += 1, then the media download
                /\ mediaFail' =
                      IF failed
                      THEN mediaFail \cup {[p |-> p, pass |-> passNo[p],
                                            guid |-> Item(p).guid,
                                            logged |-> VkMediaCatches]}
                      ELSE mediaFail
                /\ IF failed /\ ~VkMediaCatches
                   THEN \* the exception is caught in run_vk_cycle: the pass
                        \* over this source ends without its commit.
                        /\ articles' = Rollback(articles, p)
                        /\ aborted' = [aborted EXCEPT ![p] = "media"]
                        /\ pc' = [pc EXCEPT ![p] = "done"]
                        /\ newId' = [newId EXCEPT ![p] = NULL]
                        /\ sel' = [sel EXCEPT ![p] = NoSel]
                        /\ UNCHANGED <<idx, nextId, added>>
                   ELSE /\ articles' = articles \cup {NewRow(nextId, Item(p), p)}
                        /\ nextId' = nextId + 1
                        /\ added' = [added EXCEPT ![p] = added[p] + 1]
                        /\ Advance(p, "vkend")
                        /\ UNCHANGED aborted
         [] res = "nothing" ->
              /\ Advance(p, "vkend")
              /\ UNCHANGED <<articles, nextId, added, aborted, mediaFail>>
         [] res = "integrity" ->
              \* IntegrityError is caught in run_vk_cycle: the pass over this
              \* source ends without its commit.
              /\ articles' = Rollback(articles, p)
              /\ aborted' = [aborted EXCEPT ![p] = "integrity"]
              /\ pc' = [pc EXCEPT ![p] = "done"]
              /\ newId' = [newId EXCEPT ![p] = NULL]
              /\ sel' = [sel EXCEPT ![p] = NoSel]
              /\ UNCHANGED <<idx, nextId, added, mediaFail>>
    /\ UNCHANGED <<srcType, feed, avail, procs, passCap, passNo, top, sawFull, fullAvail>>

\* if added: session.commit(); the session closes at the end of run_vk_cycle.
VkEnd(p) ==
    /\ UNCHANGED exceptFetch
    /\ p \in procs /\ srcType = "vk" /\ pc[p] = "vkend"
    /\ articles' = IF added[p] > 0 THEN Commit(articles, p)
                   ELSE Rollback(articles, p)
    /\ pc' = [pc EXCEPT ![p] = "done"]
    /\ Completed(p)
    /\ UNCHANGED <<srcType, feed, avail, procs, passCap, nextId, idx, added, newId, sel,
                   passNo, aborted, top, sawFull>>

\* ------------------------------------------------------- process_source
\* The mutant of Incomplete: no entry is skipped.
IncompleteNever(it) == FALSE

\* `if not title or not link or not guid`: the entry is skipped.
Incomplete(it) == it.title = "" \/ it.link = 0 \/ it.guid = 0

RssExists(p) ==
    /\ UNCHANGED exceptFetch
    /\ p \in procs /\ srcType = "rss" /\ pc[p] = "exists"
    /\ IF Incomplete(Item(p)) \/ Exists(p, Item(p))
       THEN /\ Advance(p, "done")
            /\ IF idx[p] = 1 THEN Completed(p) ELSE UNCHANGED fullAvail
       ELSE /\ pc' = [pc EXCEPT ![p] = "insert"]
            /\ UNCHANGED <<idx, newId, sel, fullAvail>>
    /\ UNCHANGED <<srcType, feed, avail, procs, passCap, articles, nextId, added,
                   passNo, aborted, top, sawFull>>

\* session.add(article); added += 1; session.commit(), IntegrityError caught.
RssInsert(p) ==
    /\ UNCHANGED exceptFetch
    /\ p \in procs /\ srcType = "rss" /\ pc[p] = "insert"
    /\ ~Blocked(p, Item(p))
    /\ LET res == SessionAdd(Visible(p), Item(p)) IN
       IF res = "inserted"
       THEN /\ articles' = articles \cup {NewRow(nextId, Item(p), 0)}
            /\ nextId' = nextId + 1
       ELSE /\ articles' = Rollback(articles, p)
            /\ UNCHANGED nextId
    /\ added' = [added EXCEPT ![p] = added[p] + 1]
    /\ Advance(p, "done")
    /\ IF idx[p] = 1 THEN Completed(p) ELSE UNCHANGED fullAvail
    /\ UNCHANGED <<srcType, feed, avail, procs, passCap, passNo, aborted, top, sawFull>>

\* ------------------------------------------------------ the orchestrator
Steps == {"vk", "rss", "tg", "stats", "social"}

\* Where a step may fail: nowhere, while it processes one source (one
\* article, one API call), or outside that (opening the session or the
\* client, the query for the sources, writing the results).
Faults == {"none", "source", "setup"}

\* The social_stats_interval setting, in minutes (its default).
SocialInterval == 60

\* Whether a failure at `where` in `step` is caught inside the step.
\*   vk:     run_vk_cycle catches around process_vk_source only
\*   rss:    the RSS pass never raises past its boundary
\*   tg:     _process_tg_source catches inside its try; _ensure_client and
\*           the sources query are outside, and run_tg_cycle catches
\*           RuntimeError only to run the same coroutine again
\*   stats:  run_stats_cycle catches around analyze_article_words only
\*   social: _collect_vk_stats catches around _vk_call only
Caught(step, where) ==
    CASE step = "rss" -> TRUE
      [] OTHER -> where = "source"

\* What a step of run_cycle leaves the loop at: the next step, or dead when
\* an exception escapes (run_cycle and main have no try).
StepResult(step, where, next) ==
    IF where = "none" \/ Caught(step, where) THEN next ELSE "dead"

StepDone(step, where) ==
    /\ ran' = IF where = "none" \/ Caught(step, where) THEN ran \cup {step} ELSE ran
    /\ caught' = IF where # "none" /\ Caught(step, where)
                 THEN caught \cup {step} ELSE caught

\* main(): while True: run_cycle()
RunCycleBegin ==
    /\ orch = "idle" /\ cycle < MaxCycles
    /\ orch' = "vk"
    /\ cycle' = cycle + 1
    /\ ran' = {} /\ caught' = {} /\ socialRan' = FALSE
    /\ UNCHANGED <<clock, lastSocial, pollInterval>>
    /\ UNCHANGED exceptCycle

\* total_added += run_vk_cycle(logger)
RunVk ==
    /\ orch = "vk"
    /\ \E where \in Faults :
         /\ orch' = StepResult("vk", where, "rss")
         /\ StepDone("vk", where)
    /\ UNCHANGED <<cycle, clock, lastSocial, socialRan, pollInterval>>
    /\ UNCHANGED exceptCycle

\* total_added += run_rss_cycle(logger)
RunRss ==
    /\ orch = "rss"
    /\ \E where \in Faults :
         /\ orch' = StepResult("rss", where, "tg")
         /\ StepDone("rss", where)
    /\ UNCHANGED <<cycle, clock, lastSocial, socialRan, pollInterval>>
    /\ UNCHANGED exceptCycle

\* total_added += run_tg_cycle(logger)
RunTg ==
    /\ orch = "tg"
    /\ \E where \in Faults :
         /\ orch' = StepResult("tg", where, "stats")
         /\ StepDone("tg", where)
    /\ UNCHANGED <<cycle, clock, lastSocial, socialRan, pollInterval>>
    /\ UNCHANGED exceptCycle

\* stats_processed = run_stats_cycle()
RunStats ==
    /\ orch = "stats"
    /\ \E where \in Faults :
         /\ orch' = StepResult("stats", where, "social")
         /\ StepDone("stats", where)
    /\ UNCHANGED <<cycle, clock, lastSocial, socialRan, pollInterval>>
    /\ UNCHANGED exceptCycle

\* The mutant of SocialDue: the interval must be exceeded.
SocialDueStrict(last, at) ==
    last = -1 \/ (at - last) * 60 > SocialInterval * 60

\* Whether _maybe_run_social_stats runs the pass at time `at`.
SocialDue(last, at) ==
    last = -1 \/ (at - last) * 60 >= SocialInterval * 60

\* social_stats_processed = _maybe_run_social_stats(logger)
MaybeRunSocial ==
    /\ orch = "social"
    /\ IF SocialDue(lastSocial, clock)
       THEN /\ lastSocial' = clock
            /\ socialRan' = TRUE
            /\ \E where \in Faults :
                 /\ orch' = StepResult("social", where, "end")
                 /\ StepDone("social", where)
       ELSE /\ orch' = "end"
            /\ ran' = ran \cup {"social"}
            /\ UNCHANGED <<lastSocial, socialRan, caught>>
    /\ UNCHANGED <<cycle, clock, pollInterval>>
    /\ UNCHANGED exceptCycle

\* The [CYCLE-END] line, then time.sleep(interval_minutes * 60).
RunCycleEnd ==
    /\ orch = "end"
    /\ orch' = "idle"
    /\ clock' = clock + pollInterval
    /\ UNCHANGED <<cycle, ran, caught, lastSocial, socialRan, pollInterval>>
    /\ UNCHANGED exceptCycle

\* --------------------------------------------- the authorization manager
\* AuthState(status=..., qr_url=..., expires_at=..., error=..., user=...)
\* The status written into the state object in place when the second factor
\* is asked for, the other fields left as they are.
AuthStateInPlace(status, url, exp, err, user) ==
    [status |-> status,
     qr_url |-> IF status = "password_required" THEN state.qr_url ELSE url,
     expires_at |-> IF status = "password_required" THEN state.expires_at ELSE exp,
     error |-> err, user |-> user]

\* AuthState(status=..., ...): a new object, the fields not given are None.
AuthState(status, url, exp, err, user) ==
    [status |-> status, qr_url |-> url, expires_at |-> exp, error |-> err,
     user |-> user]

NoOp == [name |-> "none"]

NoRet == [op |-> "none"]

\* TelegramAuthManager.__init__, and a session nobody has logged in to.
InitAuth ==
    /\ state = AuthState("unauthorized", NULL, NULL, "none", "none")
    /\ client = "none"
    /\ qr_login = NULL
    /\ qr_task = NULL
    /\ task = [k \in 1..MaxTokens |-> "unborn"]
    /\ op = NoOp
    /\ sessionAuth = FALSE
    /\ needPw = FALSE
    /\ now = 0
    /\ nextToken = 1
    /\ ret = NoRet
    /\ loggedOut = "no"
    /\ persisted = FALSE
    /\ stray = {}

\* What a call meets when it takes the lock: whether the pending attempt is
\* live (neither expired nor completed) or expired, its qr_url and expires_at.
Met ==
    [live |-> state.status = "pending" /\ state.expires_at # NULL
              /\ now < state.expires_at /\ ~sessionAuth,
     expired |-> state.status = "pending" /\ state.expires_at # NULL
                 /\ now >= state.expires_at /\ ~sessionAuth,
     url |-> state.qr_url, exp |-> state.expires_at]

\* Whether a watcher task is still running (not cancelled, not finished).
Watching(tasks) == \E k \in 1..MaxTokens : tasks[k] \in {"waiting", "authing", "closing"}

\* The end of a call: `raised` when an exception left the operation, `failed`
\* when a login step raised at all, `st` the AuthState returned (the state
\* left behind when the call raised), `tasks` the watcher tasks at that time.
Returned(name, force, raised, failed, issued, met, st, tasks) ==
    [op |-> name, force |-> force, raised |-> raised, failed |-> failed,
     issued |-> issued, met |-> met, state |-> st, watching |-> Watching(tasks)]

\* if self._qr_task and not self._qr_task.done(): self._qr_task.cancel()
\* The CancelledError reaches the watcher when the event loop next runs it.
CancelTask(tasks, k) ==
    IF k # NULL /\ tasks[k] \notin {"gone", "unborn"}
    THEN [tasks EXCEPT ![k] = "cancelled"] ELSE tasks

\* The mutant of WatcherFinally: the block clears only what belongs to the
\* watcher's own attempt.
WatcherFinallyOwn(k, field, value) == IF value = k THEN NULL ELSE value

\* _watch_qr's finally block: self._qr_login = None; self._qr_task = None.
WatcherFinally(k, field, value) == NULL

\* await client.disconnect(): a client that exists is no longer connected.
Disconnected(c) == IF c = "none" THEN "none" ELSE "closed"

\* self._client = None: a client that is connected at that moment (another
\* coroutine connected it again after the disconnect) stays connected with
\* no handle to it.
Dropped(who, c, s) == IF c = "open" THEN s \cup {who} ELSE s

\* Time passes.
Tick ==
    /\ now + 60 <= MaxClock
    /\ now' = now + 60
    /\ UNCHANGED <<state, client, qr_login, qr_task, task, op, sessionAuth,
                   needPw, nextToken, ret, loggedOut, persisted, stray>>
    /\ UNCHANGED exceptAuth

\* start_qr up to "await client.qr_login()": the client, the two early returns.
StartQrBegin(force) ==
    /\ op = NoOp
    /\ LET met == Met IN
       \E connects \in BOOLEAN :
         IF ~connects
         THEN \* _ensure_client raises: the exception goes to the caller
              /\ ret' = Returned("start_qr", force, TRUE, TRUE, FALSE, met, state, task)
              /\ UNCHANGED <<state, client, op, persisted>>
         ELSE
           /\ client' = "open"
           /\ IF sessionAuth /\ ~force
              THEN /\ persisted' = TRUE
                   /\ state' = AuthState("authorized", NULL, NULL, "none", "me")
                   /\ ret' = Returned("start_qr", force, FALSE, FALSE, FALSE, met,
                                    state', task)
                   /\ UNCHANGED op
              ELSE IF /\ ~force
                      /\ qr_login # NULL
                      /\ state.status = "pending"
                      /\ state.expires_at # NULL
                      /\ now < state.expires_at
                      /\ state.qr_url # NULL
              THEN /\ ret' = Returned("start_qr", force, FALSE, FALSE, FALSE, met,
                                    state, task)
                   /\ UNCHANGED <<state, op, persisted>>
              ELSE /\ nextToken <= MaxTokens
                   /\ op' = [name |-> "start_qr", force |-> force, now |-> now,
                             met |-> met]
                   /\ UNCHANGED <<state, ret, persisted>>
    /\ UNCHANGED <<qr_login, qr_task, task, sessionAuth, needPw, now, nextToken,
                   loggedOut, stray>>
    /\ UNCHANGED exceptAuth

\* start_qr from "self._qr_login = await client.qr_login()" to its return.
StartQrIssue ==
    /\ op # NoOp /\ op.name = "start_qr"
    /\ \E issues \in BOOLEAN :
         IF ~issues
         THEN \* client.qr_login() raises: the exception goes to the caller
              /\ ret' = Returned("start_qr", op.force, TRUE, TRUE, FALSE, op.met,
                               state, task)
              /\ UNCHANGED <<state, qr_login, qr_task, task, nextToken>>
         ELSE /\ qr_login' = nextToken
              /\ nextToken' = nextToken + 1
              /\ state' = AuthState("pending", nextToken,
                                    op.now + QR_TIMEOUT_SECONDS, "none", "none")
              /\ task' = [CancelTask(task, qr_task) EXCEPT ![nextToken] = "waiting"]
              /\ qr_task' = nextToken
              /\ ret' = Returned("start_qr", op.force, FALSE, FALSE, TRUE, op.met,
                               state', task')
    /\ op' = NoOp
    /\ UNCHANGED <<client, sessionAuth, needPw, now, loggedOut, persisted, stray>>
    /\ UNCHANGED exceptAuth

\* status() up to its return, or, when the probe finds the session
\* authorized, up to the awaits that follow "await client.disconnect()".
Status ==
    /\ op = NoOp
    /\ IF state.status \in {"authorized", "pending", "password_required", "expired"}
       THEN /\ ret' = Returned("status", FALSE, FALSE, FALSE, FALSE, Met, state, task)
            /\ UNCHANGED <<state, client, op, persisted>>
       ELSE \E connects \in BOOLEAN :
              IF ~connects
              THEN /\ state' = AuthState("error", NULL, NULL, "exception", "none")
                   /\ ret' = Returned("status", FALSE, FALSE, TRUE, FALSE, Met,
                                      state', task)
                   /\ UNCHANGED <<client, op, persisted>>
              ELSE IF sessionAuth
              THEN /\ persisted' = TRUE
                   /\ state' = AuthState("authorized", NULL, NULL, "none", "me")
                   /\ client' = Disconnected("open")
                   /\ op' = [name |-> "status", force |-> FALSE, now |-> now,
                             met |-> Met]
                   /\ UNCHANGED ret
              ELSE /\ client' = "open"
                   /\ state' = IF state.status \notin {"expired", "error"}
                               THEN AuthState("unauthorized", NULL, NULL, "none", "none")
                               ELSE state
                   /\ ret' = Returned("status", FALSE, FALSE, FALSE, FALSE, Met,
                                      state', task)
                   /\ UNCHANGED <<op, persisted>>
    /\ UNCHANGED <<qr_login, qr_task, task, sessionAuth, needPw, now,
                   nextToken, loggedOut, stray>>
    /\ UNCHANGED exceptAuth

\* status() after the probe found the session authorized: self._client =
\* None; return self._state.
StatusClose ==
    /\ op # NoOp /\ op.name = "status"
    /\ stray' = Dropped("status", client, stray)
    /\ client' = "none"
    /\ ret' = Returned("status", FALSE, FALSE, FALSE, FALSE, op.met, state, task)
    /\ op' = NoOp
    /\ UNCHANGED <<state, qr_login, qr_task, task, sessionAuth, needPw, now,
                   nextToken, loggedOut, persisted>>
    /\ UNCHANGED exceptAuth

\* submit_password(password); `outcome` is what sign_in does.
SubmitPassword ==
    /\ op = NoOp
    /\ \E outcome \in {"ok", "bad_password", "exception", "no_client"} :
         /\ outcome \in {"ok", "bad_password"} => needPw
         /\ CASE outcome = "no_client" ->
                   \* _ensure_client raises outside the try
                   UNCHANGED <<state, client, qr_login, qr_task, task,
                               sessionAuth, needPw, loggedOut, persisted>>
              [] outcome = "ok" ->
                   /\ client' = "open"
                   /\ sessionAuth' = TRUE
                   /\ needPw' = FALSE
                   /\ qr_login' = NULL
                   /\ task' = CancelTask(task, qr_task)
                   /\ qr_task' = NULL
                   /\ state' = AuthState("authorized", NULL, NULL, "none", "me")
                   /\ loggedOut' = "no"
                   /\ persisted' = TRUE
              [] outcome = "bad_password" ->
                   /\ client' = "open"
                   /\ state' = AuthState("password_required", NULL, NULL,
                                         "bad_password", "none")
                   /\ UNCHANGED <<qr_login, qr_task, task, sessionAuth, needPw,
                                  loggedOut, persisted>>
              [] outcome = "exception" ->
                   /\ client' = "open"
                   /\ state' = AuthState("error", NULL, NULL, "exception", "none")
                   /\ UNCHANGED <<qr_login, qr_task, task, sessionAuth, needPw,
                                  loggedOut, persisted>>
         /\ ret' = Returned("submit_password", FALSE, outcome = "no_client",
                            outcome \in {"no_client", "exception"}, FALSE, Met,
                            state', task')
    /\ UNCHANGED <<op, now, nextToken, stray>>
    /\ UNCHANGED exceptAuth

\* logout()
Logout ==
    /\ op = NoOp
    /\ \E logs_out \in BOOLEAN :
         IF client # "none" /\ logs_out
         THEN /\ sessionAuth' = FALSE
              /\ needPw' = FALSE
              /\ client' = "closed"
              /\ loggedOut' = "yes"
              /\ persisted' = FALSE
         ELSE \* no client handle, or log_out raised: except Exception: pass
              /\ loggedOut' = IF client = "none" THEN "yes" ELSE "failed"
              /\ UNCHANGED <<sessionAuth, needPw, client, persisted>>
    /\ task' = CancelTask(task, qr_task)
    /\ qr_task' = NULL
    /\ qr_login' = NULL
    /\ state' = AuthState("unauthorized", NULL, NULL, "none", "none")
    /\ ret' = Returned("logout", FALSE, FALSE, FALSE, FALSE, Met, state', task')
    /\ UNCHANGED <<op, now, nextToken, stray>>
    /\ UNCHANGED exceptAuth

\* _watch_qr: "await self._qr_login.wait()" ends. The login completed, the
\* second factor is needed, or wait() raised.
WatchDone(k) ==
    /\ task[k] = "waiting"
    /\ \E outcome \in {"ok", "password", "exception"} :
         CASE outcome = "ok" ->
                \* _persist_session(); then "await self._authorized_user()"
                /\ sessionAuth' = TRUE
                /\ loggedOut' = "no"
                /\ persisted' = TRUE
                /\ task' = [task EXCEPT ![k] = "authing"]
                /\ client' = "open"
                /\ UNCHANGED <<state, qr_login, qr_task, needPw>>
           [] outcome = "password" ->
                /\ needPw' = TRUE
                /\ state' = AuthState("password_required", NULL, NULL, "none", "none")
                /\ qr_login' = WatcherFinally(k, "qr_login", qr_login)
                /\ qr_task' = WatcherFinally(k, "qr_task", qr_task)
                /\ task' = [task EXCEPT ![k] = "gone"]
                /\ UNCHANGED <<sessionAuth, client, loggedOut, persisted>>
           [] outcome = "exception" ->
                /\ state' = AuthState("error", NULL, NULL, "exception", "none")
                /\ qr_login' = WatcherFinally(k, "qr_login", qr_login)
                /\ qr_task' = WatcherFinally(k, "qr_task", qr_task)
                /\ task' = [task EXCEPT ![k] = "gone"]
                /\ UNCHANGED <<sessionAuth, client, needPw, loggedOut, persisted>>
    /\ UNCHANGED <<op, now, nextToken, ret, stray>>
    /\ UNCHANGED exceptAuth

\* _watch_qr: self._state = AuthState(status="authorized", user=...), then
\* "if self._client: await self._client.disconnect()", up to the awaits that
\* follow it.
WatchAuth(k) ==
    /\ task[k] = "authing"
    /\ state' = AuthState("authorized", NULL, NULL, "none",
                          IF sessionAuth THEN "me" ELSE "none")
    /\ task' = [task EXCEPT ![k] = "closing"]
    /\ client' = Disconnected(client)
    /\ UNCHANGED <<qr_login, qr_task, op, sessionAuth, needPw, now, nextToken, ret,
                   loggedOut, persisted, stray>>
    /\ UNCHANGED exceptAuth

\* _watch_qr: self._client = None; finally.
WatchClose(k) ==
    /\ task[k] = "closing"
    /\ stray' = Dropped("watcher", client, stray)
    /\ client' = "none"
    /\ qr_login' = WatcherFinally(k, "qr_login", qr_login)
    /\ qr_task' = WatcherFinally(k, "qr_task", qr_task)
    /\ task' = [task EXCEPT ![k] = "gone"]
    /\ UNCHANGED <<state, op, sessionAuth, needPw, now, nextToken, ret, loggedOut,
                   persisted>>
    /\ UNCHANGED exceptAuth

\* _watch_qr: CancelledError arrives at the await the task is in. It is no
\* Exception, so no except clause runs, only the finally block.
WatchCancelled(k) ==
    /\ task[k] = "cancelled"
    /\ qr_login' = WatcherFinally(k, "qr_login", qr_login)
    /\ qr_task' = WatcherFinally(k, "qr_task", qr_task)
    /\ task' = [task EXCEPT ![k] = "gone"]
    /\ UNCHANGED <<state, client, op, sessionAuth, needPw, now, nextToken, ret,
                   loggedOut, persisted, stray>>
    /\ UNCHANGED exceptAuth

\* ------------------------------------------- a pass over the sources
\* What can go wrong while one source is processed: the network or API call
\* that fetches it, the parsing of what it returned, a database error in the
\* settings read before the source's try block (Telegram only), in the
\* exists query, or in the insert or its commit.
SrcFaults(type) ==
    {"none", "network", "parse", "db_select", "db_insert"}
        \cup (IF type = "tg" THEN {"db_setup"} ELSE {})

\* process_vk_source(session, source, logger): the resolve and fetch_wall
\* failures are caught inside and return 0; everything else in the body is
\* outside any try. A statement that raises leaves the session's transaction
\* failed (nothing rolls it back), and a failed transaction rejects the next
\* statement.
process_vk_source(fault, session) ==
    CASE fault = "network" -> [out |-> "zero", session |-> session]
      [] session = "failed" -> [out |-> "raise", session |-> "failed"]
      [] fault = "parse" -> [out |-> "raise", session |-> session]
      [] fault \in {"db_select", "db_insert"} -> [out |-> "raise", session |-> "failed"]
      [] OTHER -> [out |-> "added", session |-> "ok"]

\* process_source(session, source) of the RSS fetcher: the fetch failures
\* return 0, a feed that does not parse has no usable entries, the exists
\* query is outside any try, the insert and its commit are in a try that
\* rolls the session back.
process_source(fault, session) ==
    CASE fault = "network" -> [out |-> "zero", session |-> session]
      [] fault = "parse" -> [out |-> "zero", session |-> session]
      [] session = "failed" -> [out |-> "raise", session |-> "failed"]
      [] fault = "db_select" -> [out |-> "raise", session |-> "failed"]
      [] fault = "db_insert" -> [out |-> "zero", session |-> "ok"]
      [] OTHER -> [out |-> "added", session |-> "ok"]

\* _process_tg_source(client, source, logger): the settings are read before
\* the try block; the iteration, with a session of its own per message, is
\* inside it, and its except clauses log and return what was added.
process_tg_source(fault, session) ==
    CASE fault = "db_setup" -> [out |-> "raise", session |-> session]
      [] fault = "none" -> [out |-> "added", session |-> session]
      [] OTHER -> [out |-> "zero", session |-> session]

ProcessSource(type, fault, session) ==
    CASE type = "vk" -> process_vk_source(fault, session)
      [] type = "rss" -> process_source(fault, session)
      [] type = "tg" -> process_tg_source(fault, session)

\* Whether the pass catches what processing a source raises: run_vk_cycle and
\* full_cycle wrap the call in try/except Exception, _run_tg_cycle_async has
\* only a finally.
PassCatches(type) == type \in {"vk", "rss"}

\* One iteration of "for source in sources".
RunPassSource ==
    /\ passOut = "running" /\ passPos <= Len(passSrcs)
    /\ LET r == ProcessSource(passType, passSrcs[passPos], passSession) IN
       /\ passSession' = r.session
       /\ IF r.out = "raise" /\ ~PassCatches(passType)
          THEN /\ passOut' = "raised"
               /\ UNCHANGED <<passPos, passResult>>
          ELSE /\ passResult' = [passResult EXCEPT ![passPos] =
                                   IF r.out = "raise" THEN "logged" ELSE r.out]
               /\ passPos' = passPos + 1
               /\ UNCHANGED passOut
    /\ UNCHANGED <<passType, passSrcs>>
    /\ UNCHANGED exceptPass

\* return total_added
RunPassEnd ==
    /\ passOut = "running" /\ passPos > Len(passSrcs)
    /\ passOut' = "returned"
    /\ UNCHANGED <<passType, passSrcs, passPos, passSession, passResult>>
    /\ UNCHANGED exceptPass

\* No pass over the sources is modelled.
IdlePass ==
    /\ passType = "vk"
    /\ passSrcs = <<>>
    /\ passPos = 1
    /\ passSession = "ok"
    /\ passResult = <<>>
    /\ passOut = "returned"

\* ------------------------------------------- one Telegram pass
\* What an attempt to open the client meets: an authorized session, an
\* unauthorized one, sqlite3.OperationalError "database is locked", another
\* sqlite3.OperationalError, or any other exception.
AttemptOutcomes == {"authorized", "unauthorized", "locked", "operational", "exception"}

\* The mutant of Retries: every sqlite3.OperationalError is retried.
RetriesAnyOperational(outcome) == outcome \in {"locked", "operational"}

\* _ensure_client: except sqlite3.OperationalError ... if "database is
\* locked" in msg: sleep, continue.
Retries(outcome) == outcome = "locked"

\* The mutant of HasClient: the pass goes on without a client.
HasClientAlways(out) == TRUE

\* if client is None: ... return (the pass is skipped)
HasClient(out) == out = "client"

\* wait_s = int(getattr(error, "seconds", TG_SLEEP_ON_FLOOD) or TG_SLEEP_ON_FLOOD)
FloodSeconds(secs) == IF secs = 0 THEN TG_SLEEP_ON_FLOOD ELSE secs

\* _ensure_client: if not API_ID or not API_HASH: raise RuntimeError
EnsureBegin ==
    /\ ecOut = "start"
    /\ ecOut' = IF creds THEN "running" ELSE "raised"
    /\ UNCHANGED <<creds, tgUse, chanLen, floodAt, floodSecs, ecTry, ecHist, ecSlept,
                   tgOpen, itPos, itDone, visited, sleptFlood, tgAdded, tgWritten,
                   tgOut>>
    /\ UNCHANGED exceptTgPass

\* _ensure_client: one iteration of "for i in range(retries)", and the
\* "if last_error: raise last_error" that follows the last one.
EnsureAttempt ==
    /\ ecOut = "running" /\ ecTry < retries
    /\ \E outcome \in AttemptOutcomes :
         /\ ecHist' = Append(ecHist, outcome)
         /\ CASE outcome = "authorized" ->
                   /\ tgOpen' = tgOpen + 1
                   /\ ecOut' = "client"
                   /\ UNCHANGED <<ecTry, ecSlept>>
              [] outcome = "unauthorized" ->
                   \* connect, then disconnect and return None
                   /\ ecOut' = "none"
                   /\ UNCHANGED <<ecTry, ecSlept, tgOpen>>
              [] outcome \notin {"authorized", "unauthorized"} /\ Retries(outcome) ->
                   /\ ecSlept' = Append(ecSlept, backoff * ecTry)
                   /\ ecTry' = ecTry + 1
                   /\ ecOut' = IF ecTry + 1 < retries THEN "running" ELSE "raised"
                   /\ UNCHANGED tgOpen
              [] OTHER ->
                   /\ ecOut' = "raised"
                   /\ UNCHANGED <<ecTry, ecSlept, tgOpen>>
    /\ UNCHANGED <<creds, tgUse, chanLen, floodAt, floodSecs, itPos, itDone, visited,
                   sleptFlood, tgAdded, tgWritten, tgOut>>
    /\ UNCHANGED exceptTgPass

\* client is None: "[INFO] TG parser skipped: not authorized", return 0
\* (_collect_tg_stats_async: "TG stats skipped", return {}).
TgPassSkip ==
    /\ tgOut = "running" /\ ecOut \in {"client", "none"} /\ ~HasClient(ecOut)
    /\ tgOut' = "returned"
    /\ UNCHANGED <<creds, tgUse, chanLen, floodAt, floodSecs, ecTry, ecHist, ecSlept,
                   ecOut, tgOpen, itPos, itDone, visited, sleptFlood, tgAdded,
                   tgWritten>>
    /\ UNCHANGED exceptTgPass

\* What _ensure_client raises leaves _run_tg_cycle_async (and
\* _collect_tg_stats_async): the call is outside their try.
TgPassRaise ==
    /\ tgOut = "running" /\ ecOut = "raised"
    /\ tgOut' = "raised"
    /\ UNCHANGED <<creds, tgUse, chanLen, floodAt, floodSecs, ecTry, ecHist, ecSlept,
                   ecOut, tgOpen, itPos, itDone, visited, sleptFlood, tgAdded,
                   tgWritten>>
    /\ UNCHANGED exceptTgPass

\* _process_tg_source: one message of "async for msg in client.iter_messages"
\* is stored; after the last one the loop ends.
TgIter ==
    /\ tgOut = "running" /\ ecOut \in {"client", "none"} /\ HasClient(ecOut)
    /\ tgUse = "fetch" /\ ~itDone
    /\ itPos # floodAt
    /\ IF itPos <= chanLen
       THEN /\ visited' = visited \cup {itPos}
            /\ tgAdded' = tgAdded + 1
            /\ itPos' = itPos + 1
            /\ UNCHANGED itDone
       ELSE /\ itDone' = TRUE
            /\ UNCHANGED <<visited, tgAdded, itPos>>
    /\ UNCHANGED <<creds, tgUse, chanLen, floodAt, floodSecs, ecTry, ecHist, ecSlept,
                   ecOut, tgOpen, sleptFlood, tgWritten, tgOut>>
    /\ UNCHANGED exceptTgPass

\* _process_tg_source: iter_messages raises FloodWaitError; the except clause
\* of the try around the whole loop sleeps, and "return added" follows it.
TgFloodWait ==
    /\ tgOut = "running" /\ ecOut \in {"client", "none"} /\ HasClient(ecOut)
    /\ tgUse = "fetch" /\ ~itDone
    /\ itPos = floodAt
    /\ sleptFlood' = sleptFlood + FloodSeconds(floodSecs)
    /\ itDone' = TRUE
    /\ UNCHANGED <<creds, tgUse, chanLen, floodAt, floodSecs, ecTry, ecHist, ecSlept,
                   ecOut, tgOpen, itPos, visited, tgAdded, tgWritten, tgOut>>
    /\ UNCHANGED exceptTgPass

\* _collect_tg_stats_async: client.get_messages and the counts per message.
TgStats ==
    /\ tgOut = "running" /\ ecOut \in {"client", "none"} /\ HasClient(ecOut)
    /\ tgUse = "stats" /\ ~itDone
    /\ tgWritten' = chanLen
    /\ itDone' = TRUE
    /\ UNCHANGED <<creds, tgUse, chanLen, floodAt, floodSecs, ecTry, ecHist, ecSlept,
                   ecOut, tgOpen, itPos, visited, sleptFlood, tgAdded, tgOut>>
    /\ UNCHANGED exceptTgPass

\* finally: await client.disconnect(); return total
TgPassEnd ==
    /\ tgOut = "running" /\ itDone
    /\ tgOpen' = IF tgOpen > 0 THEN tgOpen - 1 ELSE 0
    /\ tgOut' = "returned"
    /\ UNCHANGED <<creds, tgUse, chanLen, floodAt, floodSecs, ecTry, ecHist, ecSlept,
                   ecOut, itPos, itDone, visited, sleptFlood, tgAdded, tgWritten>>
    /\ UNCHANGED exceptTgPass

\* No Telegram pass is modelled.
IdleTgPass ==
    /\ creds = TRUE
    /\ tgUse = "fetch"
    /\ chanLen = 0
    /\ floodAt = 0
    /\ floodSecs = 0
    /\ ecTry = 0
    /\ ecHist = <<>>
    /\ ecSlept = <<>>
    /\ ecOut = "none"
    /\ tgOpen = 0
    /\ itPos = 1
    /\ itDone = FALSE
    /\ visited = {}
    /\ sleptFlood = 0
    /\ tgAdded = 0
    /\ tgWritten = 0
    /\ tgOut = "returned"

\* The counts of one post are stored: by the social stats pass (nothing
\* catches what the upsert raises), or by the fetch pass (history row, then
\* the upsert, in a try that logs a warning).
StoreStats ==
    /\ statOut = "running"
    /\ LET res == upsert_article_social_stat(UpsertArgs(statCaller, statPost)) IN
       IF statCaller = "tg_fetch"
       THEN /\ history' = Append(history,
                                 [like_count |-> Max0(statPost.like),
                                  repost_count |-> Max0(statPost.repost),
                                  comment_count |-> Max0(statPost.comment),
                                  view_count |-> Max0(statPost.view),
                                  engagement_score |->
                                      compute_engagement_score(PyNum(statPost.like),
                                          PyNum(statPost.repost),
                                          PyNum(statPost.comment))])
            /\ snapshot' = IF res.err THEN snapshot ELSE res.row
            /\ statOut' = IF res.err THEN "warned" ELSE "returned"
       ELSE /\ snapshot' = IF res.err THEN snapshot ELSE res.row
            /\ statOut' = IF res.err THEN "raised" ELSE "returned"
            /\ UNCHANGED history
    /\ UNCHANGED <<statCaller, statPost>>
    /\ UNCHANGED exceptStat

\* The network reports other counts for the post before they are stored.
CountsChange ==
    /\ statOut = "running"
    /\ \E f \in {"like", "repost", "comment", "view"} : \E n \in StatCounts :
         /\ statPost[f] # n
         /\ statPost' = [statPost EXCEPT ![f] = n]
    /\ UNCHANGED <<statCaller, snapshot, history, statOut>>
    /\ UNCHANGED exceptStat

\* ---------------------------------------------------- the score function
\* The values a count argument takes: None, a negative number, 0..MaxCount.
ScoreVals == {PyNone} \cup {PyNum(n) : n \in -1..MaxCount}

ScoreFields == {"like", "repost", "comment", "view"}

\* compute_engagement_score is called on the observed counts.
ScoreCall ==
    /\ scoreOut = PyNone
    /\ scoreOut' = PyNum(compute_engagement_score(scoreIn.like, scoreIn.repost,
                                                  scoreIn.comment))
    /\ UNCHANGED <<scoreIn, scoreWas>>
    /\ UNCHANGED exceptScore

\* One of the counts is observed with another value and the score is
\* computed again.
ScoreAgain ==
    /\ scoreOut # PyNone
    /\ \E f \in ScoreFields : \E v \in ScoreVals :
         /\ scoreIn[f] # v
         /\ scoreIn' = [scoreIn EXCEPT ![f] = v]
    /\ scoreOut' = PyNum(compute_engagement_score(scoreIn'.like, scoreIn'.repost,
                                                  scoreIn'.comment))
    /\ scoreWas' = [t |-> "call", args |-> scoreIn, score |-> scoreOut.v]
    /\ UNCHANGED exceptScore

\* ------------------------------------------------------- the VK API
\* The tails of the source URLs: a numeric community, a screen name in two
\* spellings, another screen name.
Tails == {"club1", "News", "news", "sport"}

\* tail.startswith(("club", "public")) and tail[5:].isdigit()
Numeric(tail) == tail = "club1"

ScreenNames == Tails \ {"club1"}

\* str.lower on the screen names.
lower(name) == IF name = "News" THEN "news" ELSE name

\* The cache key taken as the name is spelt.
CacheKeyExact(name) == name

\* key = name.lower()
CacheKey(name) == lower(name)

\* The object ids and types utils.resolveScreenName answers with.
VkIds == {2, 3}
VkTypes == {"group", "user"}

\* What an outbound call meets: an answer, an empty answer, or an HTTP or API
\* error raised by _vk_call.
ApiOutcomes == {"ok", "empty", "fail"}

\* A key _RESOLVE_CACHE does not hold.
NoEntry == [type |-> "none", object_id |-> 0]

NoVkOut == [op |-> "none", arg |-> "", called |-> FALSE, api |-> "none",
            result |-> [t |-> "none"]]

\* What owner_id_from_url makes of a resolved (type, object_id).
OwnerOf(entry) ==
    IF entry.type \in {"group", "page"}
    THEN [t |-> "owner", id |-> 0 - entry.object_id]
    ELSE [t |-> "raised"]

\* The first try block of process_vk_source: owner_id_from_url on the URL of
\* the source, with _resolve_screen_name for a screen name.  A failure is
\* logged and the pass returns 0.
OwnerIdFromUrl(tail) ==
    /\ vkPc = "idle"
    /\ IF Numeric(tail)
       THEN /\ vkOut' = [op |-> "owner_id", arg |-> tail, called |-> FALSE,
                         api |-> "none", result |-> [t |-> "owner", id |-> -1]]
            /\ vkPc' = "wall"
            /\ UNCHANGED <<resolveCache, vkRested, vkCalls>>
       ELSE IF resolveCache[CacheKey(tail)] # NoEntry
       THEN /\ vkOut' = [op |-> "owner_id", arg |-> tail, called |-> FALSE,
                         api |-> "none",
                         result |-> OwnerOf(resolveCache[CacheKey(tail)])]
            /\ vkPc' = IF vkOut'.result.t = "owner" THEN "wall" ELSE "idle"
            /\ UNCHANGED <<resolveCache, vkRested, vkCalls>>
       ELSE /\ vkCalls < MaxVkCalls
            /\ vkCalls' = vkCalls + 1
            /\ \E api \in ApiOutcomes : \E ty \in VkTypes : \E id \in VkIds :
                 LET entry == [type |-> ty, object_id |-> id] IN
                 IF api = "ok"
                 THEN /\ resolveCache' = [resolveCache EXCEPT ![CacheKey(tail)] = entry]
                      /\ vkRested' = TRUE
                      /\ vkOut' = [op |-> "owner_id", arg |-> tail, called |-> TRUE,
                                   api |-> api, result |-> OwnerOf(entry)]
                 ELSE /\ resolveCache' = resolveCache
                      /\ vkRested' = FALSE
                      /\ vkOut' = [op |-> "owner_id", arg |-> tail, called |-> TRUE,
                                   api |-> api, result |-> [t |-> "raised"]]
            /\ vkPc' = IF vkOut'.result.t = "owner" THEN "wall" ELSE "idle"
    /\ UNCHANGED exceptVk

\* fetch_wall in the second try block of process_vk_source: wall.get, then
\* the throttle sleep when the call returned.  The rest of the pass makes no
\* VK API call.
FetchWall ==
    /\ vkPc = "wall"
    /\ vkCalls < MaxVkCalls
    /\ vkCalls' = vkCalls + 1
    /\ \E api \in ApiOutcomes :
         /\ vkRested' = (api # "fail")
         /\ vkOut' = [op |-> "fetch_wall", arg |-> "", called |-> TRUE, api |-> api,
                      result |-> IF api = "fail" THEN [t |-> "raised"]
                                 ELSE [t |-> "posts"]]
    /\ vkPc' = "idle"
    /\ UNCHANGED resolveCache
    /\ UNCHANGED exceptVk

\* One batch of _collect_vk_stats: wall.getById, then the throttle sleep
\* when the call returned; a failure is logged and the next batch follows.
CollectVkStats ==
    /\ vkPc = "idle"
    /\ vkCalls < MaxVkCalls
    /\ vkCalls' = vkCalls + 1
    /\ \E api \in ApiOutcomes :
         /\ vkRested' = (api # "fail")
         /\ vkOut' = [op |-> "collect_vk_stats", arg |-> "", called |-> TRUE,
                      api |-> api,
                      result |-> IF api = "fail" THEN [t |-> "warned"]
                                 ELSE [t |-> "posts"]]
    /\ UNCHANGED <<resolveCache, vkPc>>
    /\ UNCHANGED exceptVk

\* No VK API call is made.
IdleVk ==
    /\ resolveCache = [n \in ScreenNames |-> NoEntry]
    /\ vkRested = TRUE
    /\ vkCalls = 0
    /\ vkPc = "idle"
    /\ vkOut = NoVkOut

\* Nothing is written besides the articles.
IdleSide ==
    /\ stats = {}
    /\ mediaFail = {}
    /\ mediaKeep = FALSE
    /\ mediaBad = {}

\* ------------------------------------------- the social-stats targets
\* The links and guids an article can have: a VK wall link, a t.me message
\* link, a VK guid, or something else.
Links == {"wall", "tme", "other"}
Guids == {"vk", "other"}

\* The tables: articles 1..MaxRows of Telegram and VK sources, each a root
\* or a child of article 1.
Tables ==
    {{f[i] : i \in 1..MaxRows} :
        f \in {g \in [1..MaxRows -> [id : 1..MaxRows, type : {"tg", "vk"},
                                      parent : {NULL, 1}, link : Links,
                                      guid : Guids]] :
                  \A i \in 1..MaxRows : g[i].id = i /\ (i = 1 => g[i].parent = NULL)}}

\* _parse_vk_ids(link, guid): _VK_LINK_RE on the link, then _VK_GUID_RE on
\* the guid; None when neither matches.
parse_vk_ids(link, guid) ==
    IF link = "wall" THEN [t |-> "ids", from |-> "link"]
    ELSE IF guid = "vk" THEN [t |-> "ids", from |-> "guid"]
    ELSE PyNone

\* _parse_tg_ids(link)
parse_tg_ids(link) ==
    IF link = "tme" THEN [t |-> "ids", from |-> "link"] ELSE PyNone

\* The Telegram query without the filter on parent_article_id.
TgAnyRow(a) == TRUE

\* Article.parent_article_id.is_(None)
TgRoot(a) == a.parent = NULL

\* vk_items: the articles of VK sources whose ids parse.
VkItems(tbl) ==
    {a.id : a \in {b \in tbl : b.type = "vk" /\ parse_vk_ids(b.link, b.guid) # PyNone}}

\* channel_items: the root articles of Telegram sources whose link parses.
TgItems(tbl) ==
    {a.id : a \in {b \in tbl : /\ b.type = "tg" /\ TgRoot(b)
                                /\ parse_tg_ids(b.link) # PyNone}}

\* The VK part of run_social_stats_cycle: _collect_vk_stats over vk_items.
\* The API call fails or answers for some of the posts; the upsert of the
\* first post answered either raises out of the pass or writes.
SocialVk ==
    /\ socialPc = "vk"
    /\ LET items == VkItems(table) IN
       IF items = {}
       THEN /\ socialPc' = "tg"
            /\ UNCHANGED <<queried, written>>
       ELSE /\ queried' = queried \cup items
            /\ \E api \in ApiOutcomes : \E answered \in SUBSET items :
                 IF api = "fail" \/ answered = {}
                 THEN /\ socialPc' = "tg"
                      /\ UNCHANGED written
                 ELSE IF upsert_article_social_stat(UpsertArgs("vk_repoll", FreshPost)).err
                 THEN /\ socialPc' = "raised"
                      /\ UNCHANGED written
                 ELSE /\ socialPc' = "tg"
                      /\ written' = written \cup answered
    /\ UNCHANGED table
    /\ UNCHANGED exceptTarget

\* The Telegram part: _collect_tg_stats over channel_items (nothing when no
\* client is authorized), then the upserts and the commit.
SocialTg ==
    /\ socialPc = "tg"
    /\ LET items == TgItems(table) IN
       IF items = {}
       THEN /\ socialPc' = "done"
            /\ UNCHANGED <<queried, written>>
       ELSE \E authorized \in BOOLEAN : \E answered \in SUBSET items :
              IF ~authorized
              THEN /\ socialPc' = "done"
                   /\ UNCHANGED <<queried, written>>
              ELSE /\ queried' = queried \cup items
                   /\ IF answered = {}
                      THEN /\ socialPc' = "done"
                           /\ UNCHANGED written
                      ELSE IF upsert_article_social_stat(
                                  UpsertArgs("tg_repoll", FreshPost)).err
                      THEN /\ socialPc' = "raised"
                           /\ UNCHANGED written
                      ELSE /\ socialPc' = "done"
                           /\ written' = written \cup answered
    /\ UNCHANGED table
    /\ UNCHANGED exceptTarget

\* No social-stats pass runs.
IdleTarget ==
    /\ table = {}
    /\ queried = {}
    /\ written = {}
    /\ socialPc = "done"

\* No score is computed.
IdleScore ==
    /\ scoreIn = [like |-> PyNone, repost |-> PyNone, comment |-> PyNone,
                  view |-> PyNone]
    /\ scoreOut = PyNone
    /\ scoreWas = PyNone

\* No stats are stored.
IdleStat ==
    /\ statCaller = "tg_fetch"
    /\ statPost = [like |-> 0, repost |-> 0, comment |-> 0, view |-> 0]
    /\ snapshot = NoSnap
    /\ history = <<>>
    /\ statOut = "returned"

\* ------------------------------------------------------ specifications
\* The items a Telegram channel or a VK wall holds: guid and link are both
\* made from the message id.
IdFeeds(n, kinds, times) ==
    {[i \in 1..n |-> [guid |-> i, link |-> i, kind |-> f[i][1], date |-> f[i][2]]] :
        f \in [1..n -> kinds \X times]}

\* The entries of an RSS feed: id and link are independent fields.
RssFeeds(n) ==
    {[i \in 1..n |-> [guid |-> f[i][1], link |-> f[i][2], title |-> "text",
                      kind |-> "text", date |-> 0]] :
        f \in [1..n -> (1..2) \X (1..2)]}

\* An entry as process_source reads it from feedparser: id, link and title
\* may be missing (0, ""), and guid is `id or guid or link or title`. Ids
\* and links are the strings 1 and 2; a title is no id or link of the feed.
RssEntry(id, link, title) ==
    [guid |-> IF id # 0 THEN id ELSE IF link # 0 THEN link
              ELSE IF title # "" THEN 3 ELSE 0,
     link |-> link, title |-> title, kind |-> "text", date |-> 0]

\* The feeds of n entries, complete or not.
RssRawFeeds(n) ==
    {[i \in 1..n |-> RssEntry(f[i][1], f[i][2], f[i][3])] :
        f \in [1..n -> (0..2) \X (0..2) \X {"", "text"}]}

\* The orchestrator before main() runs.
InitCycle ==
    /\ orch = "idle"
    /\ cycle = 0
    /\ ran = {}
    /\ caught = {}
    /\ clock = 0
    /\ lastSocial = -1
    /\ socialRan = FALSE

InitWorkers ==
    /\ avail = 0
    /\ articles = ForeignRows
    /\ nextId = 3
    /\ pc = [p \in Procs |-> "idle"]
    /\ idx = [p \in Procs |-> 0]
    /\ added = [p \in Procs |-> 0]
    /\ newId = [p \in Procs |-> NULL]
    /\ sel = [p \in Procs |-> NoSel]
    /\ passNo = [p \in Procs |-> 0]
    /\ aborted = [p \in Procs |-> "no"]
    /\ top = [p \in Procs |-> 0]
    /\ sawFull = [p \in Procs |-> FALSE]
    /\ fullAvail = 0
    /\ InitCycle
    /\ pollInterval = 5
    /\ InitAuth
    /\ IdlePass
    /\ IdleTgPass
    /\ IdleStat
    /\ IdleScore
    /\ IdleVk
    /\ IdleTarget

\* Two workers fetch the same source concurrently.
Init ==
    /\ procs = Procs
    /\ passCap = MaxPasses
    /\ srcType \in {"tg", "vk", "rss"}
    /\ feed \in CASE srcType = "tg" -> IdFeeds(ConcMsgs, TgKinds, ConcTimes)
                  [] srcType = "vk" -> IdFeeds(ConcMsgs, {"text", "media"}, {0})
                  [] srcType = "rss" -> RssFeeds(ConcMsgs)
    /\ InitWorkers
    /\ IdleSide

Next ==
    \/ Publish
    \/ \E p \in Procs :
        \/ PassStart(p)
        \/ TgExists(p) \/ TgInsert(p) \/ TgLink(p) \/ TgAttach(p) \/ TgCommit(p)
        \/ VkExists(p) \/ VkInsert(p) \/ VkEnd(p)
        \/ RssExists(p) \/ RssInsert(p)

Spec == Init /\ [][Next]_vars

\* One worker fetches a Telegram channel, cycle after cycle.
InitTg ==
    /\ procs = {1}
    /\ passCap = MaxPasses
    /\ srcType = "tg"
    /\ feed \in IdFeeds(MaxMsgs, {"text", "media"}, Times)
    /\ InitWorkers
    /\ IdleSide

NextTg ==
    \/ Publish
    \/ \E p \in Procs :
        \/ PassStart(p)
        \/ TgExists(p) \/ TgInsert(p) \/ TgLink(p) \/ TgAttach(p) \/ TgCommit(p)

SpecTg == InitTg /\ [][NextTg]_vars

\* One worker fetches an RSS feed whose entries may be incomplete.
InitRss ==
    /\ procs = {1}
    /\ passCap = MaxPasses
    /\ srcType = "rss"
    /\ feed \in RssRawFeeds(RssLen)
    /\ InitWorkers
    /\ IdleSide

NextRss ==
    \/ Publish
    \/ \E p \in Procs : PassStart(p) \/ RssExists(p) \/ RssInsert(p)

SpecRss == InitRss /\ [][NextRss]_vars

\* One worker fetches a Telegram channel or a VK wall; media_keep is on or
\* off, and the media of some of the items cannot be downloaded.
InitMedia ==
    /\ procs = {1}
    /\ passCap = MaxPasses
    /\ srcType \in {"tg", "vk"}
    /\ feed \in IdFeeds(MediaMsgs, {"text", "media"}, {0})
    /\ InitWorkers
    /\ stats = {}
    /\ mediaFail = {}
    /\ mediaKeep \in BOOLEAN
    /\ mediaBad \in SUBSET {feed[i].guid : i \in 1..Len(feed)}

NextMedia ==
    \/ Publish
    \/ \E p \in Procs :
        \/ PassStart(p)
        \/ TgExists(p) \/ TgInsert(p) \/ TgLink(p) \/ TgAttach(p) \/ TgCommit(p)
        \/ TgMedia(p)
        \/ VkExists(p) \/ VkInsert(p) \/ VkEnd(p)

SpecMedia == InitMedia /\ [][NextMedia]_vars

\* Two workers fetch a growing Telegram channel whose messages fall in one
\* correlation window.
InitRace ==
    /\ procs = Procs
    /\ passCap = RaceMsgs
    /\ srcType = "tg"
    /\ feed \in IdFeeds(RaceMsgs, {"text", "media"}, {0})
    /\ InitWorkers
    /\ IdleSide

SpecRace == InitRace /\ [][NextTg]_vars

\* No fetch worker runs.
IdleFetch ==
    /\ procs = {}
    /\ passCap = 0
    /\ srcType = "tg"
    /\ feed = <<>>
    /\ avail = 0
    /\ articles = ForeignRows
    /\ nextId = 3
    /\ pc = [p \in Procs |-> "idle"]
    /\ idx = [p \in Procs |-> 0]
    /\ added = [p \in Procs |-> 0]
    /\ newId = [p \in Procs |-> NULL]
    /\ sel = [p \in Procs |-> NoSel]
    /\ passNo = [p \in Procs |-> 0]
    /\ aborted = [p \in Procs |-> "no"]
    /\ top = [p \in Procs |-> 0]
    /\ sawFull = [p \in Procs |-> FALSE]
    /\ fullAvail = 0

\* The orchestrator's loop, with the poll_interval setting one of its options.
InitOrch ==
    /\ IdleFetch
    /\ InitCycle
    /\ InitAuth
    /\ IdlePass
    /\ IdleTgPass
    /\ IdleStat
    /\ IdleScore
    /\ IdleVk
    /\ IdleSide
    /\ IdleTarget
    /\ pollInterval \in {5, 30, 60}

NextCycle ==
    \/ RunCycleBegin \/ RunVk \/ RunRss \/ RunTg \/ RunStats
    \/ MaybeRunSocial \/ RunCycleEnd

SpecCycle == InitOrch /\ [][NextCycle]_vars

\* The authorization manager, its callers and its watcher tasks.
InitAuthOnly ==
    /\ IdleFetch
    /\ InitCycle
    /\ pollInterval = 5
    /\ InitAuth
    /\ IdlePass
    /\ IdleTgPass
    /\ IdleStat
    /\ IdleScore
    /\ IdleVk
    /\ IdleSide
    /\ IdleTarget

NextAuth ==
    \/ Tick
    \/ \E force \in BOOLEAN : StartQrBegin(force)
    \/ StartQrIssue
    \/ Status
    \/ StatusClose
    \/ SubmitPassword
    \/ Logout
    \/ \E k \in 1..MaxTokens :
        \/ WatchDone(k) \/ WatchAuth(k) \/ WatchClose(k) \/ WatchCancelled(k)

SpecAuth == InitAuthOnly /\ [][NextAuth]_vars

\* One pass of a fetcher over the enabled sources of its type.
InitPass ==
    /\ IdleFetch
    /\ InitCycle
    /\ pollInterval = 5
    /\ InitAuth
    /\ passType \in {"vk", "rss", "tg"}
    /\ passSrcs \in [1..MaxSources -> SrcFaults(passType)]
    /\ passPos = 1
    /\ passSession = "ok"
    /\ passResult = [i \in 1..MaxSources |-> "todo"]
    /\ passOut = "running"
    /\ IdleTgPass
    /\ IdleStat
    /\ IdleScore
    /\ IdleVk
    /\ IdleSide
    /\ IdleTarget

NextPass == RunPassSource \/ RunPassEnd

SpecPass == InitPass /\ [][NextPass]_vars

\* One Telegram pass over one channel: the client is opened, the messages
\* are iterated (or, in the stats pass, their counts fetched), the client is
\* disconnected.
InitTgPass ==
    /\ IdleFetch
    /\ InitCycle
    /\ pollInterval = 5
    /\ InitAuth
    /\ IdlePass
    /\ creds \in BOOLEAN
    /\ tgUse \in {"fetch", "stats"}
    /\ chanLen \in 1..MaxChan
    /\ floodAt \in IF tgUse = "fetch" THEN 0..chanLen ELSE {0}
    /\ floodSecs \in IF floodAt = 0 THEN {0} ELSE {0, 30}
    /\ ecTry = 0
    /\ ecHist = <<>>
    /\ ecSlept = <<>>
    /\ ecOut = "start"
    /\ tgOpen = 0
    /\ itPos = 1
    /\ itDone = FALSE
    /\ visited = {}
    /\ sleptFlood = 0
    /\ tgAdded = 0
    /\ tgWritten = 0
    /\ tgOut = "running"
    /\ IdleStat
    /\ IdleScore
    /\ IdleVk
    /\ IdleSide
    /\ IdleTarget

NextTgPass ==
    \/ EnsureBegin
    \/ EnsureAttempt
    \/ TgPassSkip
    \/ TgPassRaise
    \/ TgIter
    \/ TgFloodWait
    \/ TgStats
    \/ TgPassEnd

\* The pass is a running coroutine: a step that can be taken is taken.
SpecTgPass == InitTgPass /\ [][NextTgPass]_vars /\ WF_vars(NextTgPass)

\* QR logins and logouts in the authorization manager of the server and one
\* Telegram pass of the parser, each with a TelegramClient of its own on the
\* same SESSION_FILE.
InitShared ==
    /\ IdleFetch
    /\ InitCycle
    /\ pollInterval = 5
    /\ InitAuth
    /\ IdlePass
    /\ creds = TRUE
    /\ tgUse \in {"fetch", "stats"}
    /\ chanLen = 1
    /\ floodAt = 0
    /\ floodSecs = 0
    /\ ecTry = 0
    /\ ecHist = <<>>
    /\ ecSlept = <<>>
    /\ ecOut = "start"
    /\ tgOpen = 0
    /\ itPos = 1
    /\ itDone = FALSE
    /\ visited = {}
    /\ sleptFlood = 0
    /\ tgAdded = 0
    /\ tgWritten = 0
    /\ tgOut = "running"
    /\ IdleStat
    /\ IdleScore
    /\ IdleVk
    /\ IdleSide
    /\ IdleTarget

\* The pass's attempt to open its client when the session file is not
\* locked and nothing fails: client.is_user_authorized() answers for the
\* session the manager's logins and logouts act on.
SharedAttempt ==
    /\ EnsureAttempt
    /\ ecOut' = IF sessionAuth THEN "client" ELSE "none"

NextShared ==
    \/ \E force \in BOOLEAN : StartQrBegin(force)
    \/ StartQrIssue
    \/ Logout
    \/ \E k \in 1..MaxTokens :
        \/ WatchDone(k) \/ WatchAuth(k) \/ WatchClose(k) \/ WatchCancelled(k)
    \/ EnsureBegin
    \/ SharedAttempt
    \/ TgPassSkip
    \/ TgIter
    \/ TgStats
    \/ TgPassEnd

SpecShared == InitShared /\ [][NextShared]_vars

\* The counts of one post are stored for its article, which has a snapshot
\* from an earlier poll or none.
InitStat ==
    /\ IdleFetch
    /\ InitCycle
    /\ pollInterval = 5
    /\ InitAuth
    /\ IdlePass
    /\ IdleTgPass
    /\ statCaller \in {"vk_repoll", "tg_repoll", "tg_fetch"}
    /\ statPost \in [like : {0, 10}, repost : {0, 2}, comment : {0, 3}, view : {0}]
    /\ snapshot \in IF statCaller = "tg_fetch" THEN {NoSnap}
                    ELSE {NoSnap, [t |-> "row", like_count |-> 0, repost_count |-> 0,
                                   comment_count |-> 0, view_count |-> 0,
                                   engagement_score |-> 0]}
    /\ history = <<>>
    /\ statOut = "running"
    /\ IdleScore
    /\ IdleVk
    /\ IdleSide
    /\ IdleTarget

NextStat == StoreStats \/ CountsChange

SpecStat == InitStat /\ [][NextStat]_vars

\* compute_engagement_score on every combination of counts.
InitScore ==
    /\ IdleFetch
    /\ InitCycle
    /\ pollInterval = 5
    /\ InitAuth
    /\ IdlePass
    /\ IdleTgPass
    /\ IdleStat
    /\ scoreIn \in [ScoreFields -> ScoreVals]
    /\ scoreOut = PyNone
    /\ scoreWas = PyNone
    /\ IdleVk
    /\ IdleSide
    /\ IdleTarget

NextScore == ScoreCall \/ ScoreAgain

SpecScore == InitScore /\ [][NextScore]_vars

\* The VK fetcher and the stats collector of one process call the VK API.
InitVk ==
    /\ IdleFetch
    /\ InitCycle
    /\ pollInterval = 5
    /\ InitAuth
    /\ IdlePass
    /\ IdleTgPass
    /\ IdleStat
    /\ IdleScore
    /\ IdleVk
    /\ IdleSide
    /\ IdleTarget

NextVk ==
    \/ \E tail \in Tails : OwnerIdFromUrl(tail)
    \/ FetchWall
    \/ CollectVkStats

SpecVk == InitVk /\ [][NextVk]_vars

\* One social-stats pass over every table.
InitTarget ==
    /\ IdleFetch
    /\ InitCycle
    /\ pollInterval = 5
    /\ InitAuth
    /\ IdlePass
    /\ IdleTgPass
    /\ IdleStat
    /\ IdleScore
    /\ IdleVk
    /\ IdleSide
    /\ table \in Tables
    /\ queried = {}
    /\ written = {}
    /\ socialPc = "vk"

NextTarget == SocialVk \/ SocialTg

SpecTarget == InitTarget /\ [][NextTarget]_vars

\* ------------------------------------------------------- the properties
Own == {r \in articles : r.source_id = TheSource}

RowOf(id) == CHOOSE r \in articles : r.id = id

InWindow(a, b) == Abs(a - b) <= WINDOW_SEC

\* The rows every session sees.
Stored(rows) == {r \in rows : r.tx = 0}

\* Worker p is at an item that the table holds already, stored by another
\* insert than the one p is carrying out.
Redelivered(p) ==
    /\ p \in procs /\ idx[p] >= 1
    /\ pc[p] \in {"exists", "insert", "link", "attach", "commit", "media"}
    /\ \E r \in Stored(Own) :
         /\ r.id # newId[p]
         /\ (r.guid = Item(p).guid \/ r.link = Item(p).link)

\* Worker p takes a step.
StepOf(p) == pc'[p] # pc[p] \/ idx'[p] # idx[p]

\* The articles a social-stats pass may ask for: Telegram roots, and VK
\* articles with a wall link or a VK guid.
Targets ==
    {a.id : a \in {b \in table :
                     \/ b.type = "tg" /\ b.parent = NULL
                     \/ b.type = "vk" /\ (b.link = "wall" \/ b.guid = "vk")}}

\* C1: however often a pass runs, the table holds at most one row per
\* (source_id, guid) and per (source_id, link), and a pass that starts after a
\* complete pass over the same source data creates no row: it counts none
\* and holds none uncommitted.
C1_Idempotent ==
    /\ \A r1, r2 \in articles :
         (r1.source_id = r2.source_id /\ (r1.guid = r2.guid \/ r1.link = r2.link))
            => r1 = r2
    /\ \A p \in procs :
         sawFull[p] => (added[p] = 0 /\ \A r \in articles : r.tx # p)

\* A second pass over the same data has run to its end beside the stored rows.
C1_Witness ==
    \E p \in procs :
        /\ sawFull[p] /\ pc[p] = "done" /\ top[p] = Len(feed)
        /\ Cardinality(Own) >= 1

\* C2: when two passes deliver the same item concurrently, whatever the
\* interleaving of their existence checks and inserts, no pass is ended by
\* the duplicate, no guid or link is stored twice, and once a pass is through
\* every item it was given is stored.
C2_ConcurrentInsert ==
    /\ \A p \in procs : aborted[p] # "integrity"
    /\ \A i \in 1..Len(feed) :
         /\ Cardinality({r \in Own : r.guid = feed[i].guid}) <= 1
         /\ Cardinality({r \in Own : r.link = feed[i].link}) <= 1
    /\ \A p \in procs :
         (pc[p] = "done" /\ passNo[p] > 0) =>
            \A i \in 1..top[p] :
               \E r \in Own : r.tx = 0 /\ (r.guid = feed[i].guid \/ r.link = feed[i].link)

\* Both workers passed the existence check for the one item and tried to
\* insert it: both are through and one row is stored.
C2_Witness ==
    /\ srcType = "rss" /\ avail = 1
    /\ pc[1] = "done" /\ pc[2] = "done"
    /\ added[1] = 1 /\ added[2] = 1
    /\ Cardinality(Own) = 1

\* C4: no article with a parent is itself a parent, and no article is its own
\* parent.
C4_DepthOne ==
    \A r \in articles :
        r.parent # NULL =>
            /\ r.parent # r.id
            /\ \A c \in articles : c.parent # r.id

\* Both workers have run a pass and a child is attached.
C4_Witness ==
    /\ passNo[1] > 0 /\ passNo[2] > 0
    /\ \E r \in Own : r.parent # NULL /\ r.tx = 0

\* C5: a parent_article_id that is set is never changed by a later or a
\* concurrent attach.
C5_ParentStable ==
    [][\A r \in articles : r.parent # NULL =>
          \A q \in articles' : q.id = r.id => q.parent = r.parent]_vars

\* A worker's attach has run over an orphan that another worker's text
\* article had taken meanwhile: the orphan keeps the first parent.
C5_Witness ==
    \E p \in procs :
        /\ pc[p] = "commit"
        /\ \E id \in sel[p].ids :
             /\ id # newId[p]
             /\ RowOf(id).parent # NULL
             /\ RowOf(id).parent # sel[p].parent

\* C6: once a new text article's link step is done, no media-only orphan of
\* the source inside the window of the text article is left unlinked, and
\* each orphan the step selected has the new article as its parent.
C6_TextAttachesOrphans ==
    \A p \in procs :
        (pc[p] = "commit" /\ Item(p).kind = "text") =>
            /\ \A r \in Own :
                 (r.kind = "media" /\ InWindow(r.published_at, Item(p).date))
                    => r.parent # NULL
            /\ \A id \in sel[p].ids : RowOf(id).parent = newId[p]

\* A text article has taken a burst of two orphans, one at the window's edge.
C6_Witness ==
    \E p \in procs :
        /\ pc[p] = "commit" /\ Item(p).kind = "text"
        /\ Cardinality(sel[p].ids) = 2
        /\ \E id \in sel[p].ids :
             Abs(RowOf(id).published_at - Item(p).date) = WINDOW_SEC

\* The first cycle ran over a channel that held a text message and, d
\* seconds later (0 <= d <= WINDOW_SEC), a media-only message.
C7_Case ==
    /\ passNo[1] = 1 /\ pc[1] = "done" /\ top[1] = 2 /\ aborted[1] = "no"
    /\ \E i, j \in 1..2 :
         /\ feed[i].kind = "text" /\ feed[j].kind = "media"
         /\ feed[j].date - feed[i].date >= 0
         /\ feed[j].date - feed[i].date <= WINDOW_SEC

\* C7: after that cycle two articles exist and the media article's parent is
\* the text article, whichever message was delivered first.
C7_TextThenMedia ==
    C7_Case =>
        /\ Cardinality(Own) = 2
        /\ \E t, m \in Own :
             /\ t.kind = "text" /\ m.kind = "media"
             /\ m.parent = t.id /\ t.parent = NULL

\* The case with the text message delivered first and d = WINDOW_SEC.
C7_Witness ==
    /\ C7_Case
    /\ feed[2].kind = "text" /\ feed[1].date - feed[2].date = WINDOW_SEC

\* C8: a media-only article with no text article of its source inside its
\* window has no parent.
C8_LoneOrphan ==
    \A r \in Own :
        (r.kind = "media" /\
         ~\E t \in Own : t.description # "none" /\ InWindow(t.published_at, r.published_at))
            => r.parent = NULL

\* Two cycles are through, text articles are stored, and an orphan outside
\* their windows is still unlinked.
C8_Witness ==
    /\ passNo[1] = 2 /\ pc[1] = "done" /\ top[1] = Len(feed)
    /\ \E r, t \in Own :
         /\ r.kind = "media" /\ r.parent = NULL
         /\ t.description # "none"
         /\ \A u \in Own : u.description # "none" => ~InWindow(u.published_at, r.published_at)

\* C3: no exception raised inside a fetcher, the analysis pass or the
\* social-stats pass ends the orchestrator's loop, and a cycle that reaches
\* its end has run all five steps.
C3_LoopSurvives ==
    /\ orch # "dead"
    /\ orch = "end" => ran = Steps

\* C10: a start_qr call without force that meets a pending attempt which has
\* neither expired nor completed returns that attempt's qr_url and expires_at
\* and issues no token; one that meets an expired pending attempt returns a
\* pending state with a newly issued qr_url.
C10_Repoll ==
    (ret.op = "start_qr" /\ ~ret.force /\ ~ret.raised) =>
        /\ ret.met.live =>
              /\ ~ret.issued
              /\ ret.state.status = "pending"
              /\ ret.state.qr_url = ret.met.url
              /\ ret.state.expires_at = ret.met.exp
        /\ ret.met.expired =>
              /\ ret.issued
              /\ ret.state.status = "pending"
              /\ ret.state.qr_url # ret.met.url

\* C11: a Status() call that meets a pending attempt at or after its
\* expires_at returns expired and leaves no watcher running; Status() never
\* reports pending for an attempt whose expires_at has passed.
C11_StatusExpires ==
    (ret.op = "status") =>
        /\ ret.met.expired => (ret.state.status = "expired" /\ ~ret.watching)
        /\ ret.state.status = "pending" => ~ret.met.expired

\* C12: Logout() returns unauthorized, and a Status() call made after a
\* logout (whose log_out did not itself fail) with no login completed in
\* between does not report authorized.
C12_LogoutInvalidates ==
    /\ ret.op = "logout" => ret.state.status = "unauthorized"
    /\ (ret.op = "status" /\ loggedOut = "yes") => ret.state.status # "authorized"

\* C13: a step of the QR watcher is taken only while no operation holds the
\* lock.
C13_WatcherUnderLock ==
    [][(\E k \in 1..MaxTokens :
          WatchDone(k) \/ WatchAuth(k) \/ WatchClose(k) \/ WatchCancelled(k))
       => op = NoOp]_vars

\* An RSS entry that has title and link.
HasTitleAndLink(it) == it.title # "" /\ it.link # 0

\* C23: when a pass over an RSS feed is done, every entry of the feed with
\* title and link is stored (by its guid or its link), every row of the
\* source comes from an entry with title and link, and the first pass counts
\* exactly the rows it inserted: an entry without title or link adds no row
\* and nothing to the count, and the entries after it are processed.
C23_IncompleteSkipped ==
    (srcType = "rss" /\ pc[1] = "done") =>
        /\ \A i \in 1..top[1] :
              HasTitleAndLink(feed[i]) =>
                  \E r \in Own : r.guid = feed[i].guid \/ r.link = feed[i].link
        /\ \A r \in Own :
              \E i \in 1..top[1] :
                  /\ HasTitleAndLink(feed[i])
                  /\ r.guid = feed[i].guid /\ r.link = feed[i].link
        /\ passNo[1] = 1 => added[1] = Cardinality(Own)

\* The newest entry has no title, the one before it is complete, and the
\* pass stored and counted that one.
C23_Witness ==
    /\ srcType = "rss" /\ pc[1] = "done" /\ passNo[1] = 1 /\ top[1] = 2
    /\ feed[2].title = "" /\ feed[2].link = 2 /\ feed[2].guid = 2
    /\ HasTitleAndLink(feed[1]) /\ feed[1].link = 1
    /\ added[1] = 1 /\ Cardinality(Own) = 1

\* C24: once an observation of a post's counters has been handed to the
\* snapshot write (at Telegram ingestion or in the periodic pass, for VK and
\* Telegram), the article's history holds exactly one row for it, with the
\* observed counts.
C24_HistoryAppended ==
    (statOut # "running") =>
        /\ Len(history) = 1
        /\ history[1].like_count = statPost.like
        /\ history[1].repost_count = statPost.repost
        /\ history[1].comment_count = statPost.comment

\* C25: a call of submit_password ends in one of three outcomes: authorized
\* with no watcher left running, password_required with the error
\* "bad_password", or error with a message; no exception leaves the call.
C25_PasswordOutcomes ==
    (ret.op = "submit_password") =>
        /\ ~ret.raised
        /\ \/ ret.state.status = "authorized" /\ ~ret.watching
           \/ ret.state.status = "password_required"
                 /\ ret.state.error = "bad_password"
           \/ ret.state.status = "error" /\ ret.state.error # "none"

\* C26: when the watcher of a pending attempt sees the login complete, the
\* session has been saved when it sets the state to authorized, and when it
\* ends no client is left connected, and the client handle, the qr_login
\* object and the watcher task reference are cleared.
C26_WatcherCompletes ==
    [][\A k \in 1..MaxTokens :
          /\ WatchAuth(k) => persisted
          /\ WatchClose(k) =>
                /\ client' = "none" /\ "watcher" \notin stray'
                /\ qr_login' = NULL /\ qr_task' = NULL]_vars

\* C27: when status() has found by its probe that the session is authorized
\* and returns, the client handle is cleared and no client is left connected
\* by the call.
C27_ProbeDisconnects ==
    [][StatusClose => (client' = "none" /\ "status" \notin stray')]_vars

\* C28: while a login operation of the authorization manager is in progress
\* (a call holds the lock, or a QR attempt is being watched) with its client
\* connected, no fetch or stats pass holds a connected client on the session.
C28_OneClient ==
    ~(/\ client = "open"
      /\ op # NoOp \/ Watching(task)
      /\ tgOpen > 0)

\* C29: every article with a parent was created from a message with no
\* text and with media (its title is its permalink); an article created from
\* a message with neither text nor media has no parent.
C29_OnlyMediaChildren ==
    \A r \in Own :
        r.parent # NULL =>
            r.kind = "media" /\ r.description = "none" /\ r.title = "link"

\* C30: the parent of every article that has one is an article of the same
\* source with a description (a text article), published at most WINDOW_SEC
\* seconds before or after the child.
C30_ParentInWindow ==
    \A r \in articles :
        r.parent # NULL =>
            \E q \in articles :
                /\ q.id = r.parent
                /\ q.source_id = r.source_id
                /\ q.description # "none"
                /\ Abs(q.published_at - r.published_at) <= WINDOW_SEC

\* Two children of one text article are committed, one stored before it and
\* one after it, one of them at the edge of the window.
C30_Witness ==
    \E c, d, q \in Own :
        /\ c.parent = q.id /\ d.parent = q.id
        /\ c.tx = 0 /\ d.tx = 0
        /\ c.id < q.id /\ d.id > q.id
        /\ Abs(q.published_at - c.published_at) = WINDOW_SEC

\* C31: at most one watcher task is live, and a cancelled watcher changes
\* nothing of the shared state when it ends: the state, the qr_login object
\* and the watcher task reference of the attempt that replaced it stay.
C31_CancelledWatcherSilent ==
    /\ [](Cardinality({k \in 1..MaxTokens :
                          task[k] \in {"waiting", "authing", "closing"}}) <= 1)
    /\ [][\A k \in 1..MaxTokens :
            WatchCancelled(k) =>
                (state' = state /\ qr_login' = qr_login /\ qr_task' = qr_task)]_vars

\* C32: when each of the two workers has made one pass over the source and
\* both are through, the counts the two passes return add up to the rows
\* stored and committed for the source: an item lost to a uniqueness
\* conflict with the other pass is counted by neither.
C32_CountIsInserted ==
    (/\ pc[1] = "done" /\ pc[2] = "done"
     /\ passNo[1] = 1 /\ passNo[2] = 1) =>
        added[1] + added[2] = Cardinality({r \in Own : r.tx = 0})

\* C33: every outbound VK API call is made after a throttle sleep that
\* followed the call before it, also when that call failed or came back
\* empty.
C33_ThrottleBetweenCalls ==
    [][vkCalls' # vkCalls => vkRested]_vars

\* C37: an owner lookup of a screen name that has been resolved before, in
\* any spelling, makes no API call, leaves the cache alone and returns what
\* the resolution gave; a lookup of a name not resolved before makes the
\* call, and a failed or empty answer is not cached.
C37_ResolveCached ==
    [][\A tail \in ScreenNames :
         OwnerIdFromUrl(tail) =>
             LET hit == {k \in ScreenNames : /\ lower(k) = lower(tail)
                                             /\ resolveCache[k] # NoEntry} IN
             /\ hit # {} =>
                    /\ vkCalls' = vkCalls
                    /\ resolveCache' = resolveCache
                    /\ \A k \in hit : vkOut'.result = OwnerOf(resolveCache[k])
             /\ hit = {} =>
                    /\ vkCalls' = vkCalls + 1
                    /\ vkOut'.api # "ok" =>
                           \A k \in ScreenNames :
                               lower(k) = lower(tail) => resolveCache'[k] = NoEntry]_vars

\* "News" is looked up after "news" was resolved: no call, the stored owner.
C37_Witness ==
    /\ vkOut.op = "owner_id" /\ vkOut.arg = "News"
    /\ ~vkOut.called
    /\ vkOut.result.t = "owner"
    /\ vkCalls >= 2

\* C34: when the media download of a new Telegram text post is about to be
\* attempted, the post's article is committed and has its history row and
\* its snapshot; the download, failing or not, changes neither the articles
\* nor the stats; and no history row or snapshot belongs to a media-only
\* article.
C34_StatsBeforeMedia ==
    /\ [](\A p \in procs :
            (srcType = "tg" /\ pc[p] = "media" /\ Item(p).kind = "text") =>
                /\ RowOf(newId[p]).tx = 0
                /\ [article |-> newId[p], what |-> "history"] \in stats
                /\ [article |-> newId[p], what |-> "snapshot"] \in stats)
    /\ [](\A s \in stats : RowOf(s.article).kind = "text")
    /\ [][\A p \in Procs : TgMedia(p) => (articles' = articles /\ stats' = stats)]_vars

\* A text post and a media-only message were ingested, the download of the
\* text post's media failed.
C34_Witness ==
    /\ srcType = "tg" /\ pc[1] = "done" /\ passNo[1] = 1
    /\ \E r \in Stored(Own) : r.kind = "media"
    /\ \E r \in Stored(Own) :
         /\ r.kind = "text"
         /\ [article |-> r.id, what |-> "snapshot"] \in stats
         /\ \E f \in mediaFail : f.guid = r.guid /\ f.logged

C40_StoredUntouched ==
    [][/\ \A p \in Procs :
            (Redelivered(p) /\ StepOf(p)) =>
                /\ Stored(articles') = Stored(articles)
                /\ articles' \subseteq articles
                /\ stats' = stats
       /\ \A r \in Stored(articles) :
            \E q \in Stored(articles') :
                /\ q.id = r.id
                /\ [q EXCEPT !.parent = r.parent] = r
                /\ q.parent # r.parent => \E p \in Procs : TgAttach(p)
       /\ \A s \in stats' \ stats :
            \E p \in Procs : TgCommit(p) /\ s.article = newId[p]]_vars

\* A second pass went over a channel whose messages are stored, one of them
\* linked to its parent, and added nothing.
C40_Witness ==
    /\ srcType = "tg" /\ passNo[1] = 2 /\ pc[1] = "done" /\ added[1] = 0
    /\ top[1] = 2
    /\ \E r \in Stored(Own) : r.parent # NULL
    /\ stats # {}

\* C38: a state with status password_required is left only by
\* submit_password or logout.
C38_PasswordRequiredStays ==
    [][(state.status = "password_required" /\ state'.status # "password_required")
          => (SubmitPassword \/ Logout)]_vars

\* C39: the status is one of the six; qr_url and expires_at are set exactly
\* when it is pending; error is set only with error or password_required;
\* user is set only with authorized.
C39_StateShape ==
    /\ state.status \in {"unauthorized", "pending", "password_required",
                          "authorized", "expired", "error"}
    /\ (state.qr_url # NULL) <=> (state.status = "pending")
    /\ (state.expires_at # NULL) <=> (state.status = "pending")
    /\ (state.error # "none") => state.status \in {"error", "password_required"}
    /\ (state.user # "none") => state.status = "authorized"

\* A wrong password was submitted for a login that had been pending.
C39_Witness ==
    /\ ret.op = "submit_password"
    /\ state.status = "password_required" /\ state.error = "bad_password"
    /\ state.qr_url = NULL /\ state.expires_at = NULL
    /\ nextToken > 1

\* C35: a social-stats pass asks the network for, and writes a snapshot
\* for, no article other than Telegram roots and VK articles whose ids
\* parse from the link or the guid.
C35_OnlyTargets ==
    /\ queried \subseteq Targets
    /\ written \subseteq Targets

\* A pass went over a table with a Telegram child and a VK article whose
\* ids do not parse, and asked for a Telegram root and a VK article.
C35_Witness ==
    /\ socialPc \in {"done", "raised"}
    /\ \E a \in table : a.type = "tg" /\ a.parent # NULL /\ a.id \notin queried
    /\ \E a \in table : a.type = "tg" /\ a.id \in queried
    /\ queried # {}

\* A count as the score reads it: 0 when missing or negative.
Counted(x) == IF x.t = "num" /\ x.v > 0 THEN x.v ELSE 0

\* C21: the score compute_engagement_score returns is comments * 1.0 +
\* likes * 0.5 + reposts * 2.0 (here in half points), with a negative or
\* missing count read as 0, whatever the view count is.
C21_ScoreFormula ==
    scoreOut # PyNone =>
        scoreOut.v = 2 * Counted(scoreIn.comment) + Counted(scoreIn.like)
                        + 4 * Counted(scoreIn.repost)

C21_Witness ==
    /\ scoreOut = PyNum(9)
    /\ scoreIn.like = PyNum(3) /\ scoreIn.comment = PyNum(3)
    /\ scoreIn.repost = PyNum(-1) /\ scoreIn.view = PyNum(2)
    /\ scoreWas # PyNone /\ scoreWas.args.repost = PyNone

\* C22: when one of comments, likes, reposts is observed with a greater
\* value and the other two are the same, the score is not smaller.
C22_Monotonic ==
    (scoreWas # PyNone) =>
        \A f \in {"like", "repost", "comment"} :
            (/\ scoreWas.args[f].t = "num" /\ scoreIn[f].t = "num"
             /\ scoreIn[f].v > scoreWas.args[f].v)
            => scoreOut.v >= scoreWas.score

C22_Witness ==
    /\ scoreWas # PyNone
    /\ scoreWas.args.repost = PyNum(-1) /\ scoreIn.repost = PyNum(2)
    /\ scoreIn.like = PyNum(1) /\ scoreIn.comment = PyNum(0)
    /\ scoreWas.score = 1 /\ scoreOut = PyNum(9)

\* C20: after the social stats pass has re-polled a VK post, the article's
\* snapshot holds the post's likes, reposts and comments and the engagement
\* score comment * 1.0 + like * 0.5 + repost * 2.0 (here in half points).
C20_VkSnapshot ==
    (statCaller = "vk_repoll" /\ statOut # "running") =>
        /\ snapshot # NoSnap
        /\ snapshot.like_count = statPost.like
        /\ snapshot.repost_count = statPost.repost
        /\ snapshot.comment_count = statPost.comment
        /\ snapshot.engagement_score =
               2 * statPost.comment + statPost.like + 4 * statPost.repost

\* C19: in a cycle that reaches the social-stats step, the pass runs if the
\* cycle is the first one, or if at least social_stats_interval minutes have
\* passed since it last ran, and is skipped otherwise.
C19_SocialGate ==
    [][orch = "social" =>
         (socialRan' <=> (cycle = 1 \/ (lastSocial # -1
                                        /\ clock - lastSocial >= SocialInterval)))]_vars

C19_Witness ==
    /\ cycle = 3 /\ orch = "end" /\ socialRan
    /\ pollInterval = 30 /\ clock - 2 * pollInterval = 0 /\ lastSocial = clock

\* C16: a fetch pass that met a flood wait at a message has slept the seconds
\* the error carried (TG_SLEEP_ON_FLOOD when it carried none) and has still
\* processed every message of the channel when it returns.
C16_FloodResumes ==
    (tgOut = "returned" /\ tgUse = "fetch" /\ ecOut = "client" /\ floodAt # 0) =>
        /\ sleptFlood = FloodSeconds(floodSecs)
        /\ visited = 1..chanLen

\* C17: _ensure_client makes at most `retries` attempts, all but the last of
\* which met "database is locked"; the sleep after the k-th failed attempt is
\* backoff * (k - 1), linear in k; and the loop always ends, with a client,
\* with none, or raising.
C17_EnsureClient ==
    /\ [](/\ Len(ecHist) <= retries
          /\ \A k \in 1..Len(ecHist) : k < Len(ecHist) => ecHist[k] = "locked"
          /\ ecOut \in {"client", "none", "raised"} /\ ecHist # <<>> =>
                /\ ecOut = "client" <=> ecHist[Len(ecHist)] = "authorized"
                /\ ecOut = "none" <=> ecHist[Len(ecHist)] = "unauthorized"
          /\ \A k \in 1..Len(ecSlept) : ecSlept[k] = backoff * (k - 1)
          /\ Len(ecSlept) = Cardinality({k \in 1..Len(ecHist) : ecHist[k] = "locked"}))
    /\ (ecOut \in {"start", "running"} ~> ecOut \in {"client", "none", "raised"})

C17_Witness ==
    /\ ecOut = "raised" /\ Len(ecHist) = retries
    /\ ecHist[retries] = "locked" /\ ecSlept[retries] = backoff * (retries - 1)

\* C18: a pass that finds no authorized session returns without raising,
\* creates no article, writes no snapshot and leaves no client connected.
C18_UnauthorizedSkip ==
    /\ ecOut = "none" => (tgOut # "raised" /\ tgAdded = 0 /\ tgWritten = 0 /\ tgOpen = 0)
    /\ (ecOut = "none" /\ tgOut = "returned") => visited = {}

C18_Witness == ecOut = "none" /\ tgOut = "returned" /\ tgUse = "stats"

\* C15: a pass over the sources raises nothing, and when it returns every
\* source that met no failure of its own has been processed successfully.
C15_SourceIsolation ==
    /\ passOut # "raised"
    /\ passOut = "returned" =>
          \A i \in 1..Len(passSrcs) : passSrcs[i] = "none" => passResult[i] = "added"

\* C14: no exception leaves StartQR, SubmitPassword or Status, and a call in
\* which a login step raised returns state error.
C14_ErrorsCaptured ==
    (ret.op \in {"start_qr", "submit_password", "status"}) =>
        /\ ~ret.raised
        /\ ret.failed => ret.state.status = "error"

\* The candidate of least time distance and, among those, of lowest id.
BestParent(rows, t) ==
    LET near == {r \in rows : \A o \in rows :
                    Abs(r.published_at - t) <= Abs(o.published_at - t)}
    IN (CHOOSE r \in near : \A o \in near : r.id <= o.id).id

\* C9: the parent chosen for a new media-only orphan is the nearest unlinked
\* text article in the window and, on a tie, the one of lowest id, whatever
\* order the rows come back in.
C9_NearestLowestId ==
    \A p \in procs :
        (pc[p] = "attach" /\ is_child(Item(p))) =>
            sel[p].parent = BestParent(ParentRows(p, Item(p).date), Item(p).date)

====
